---- MODULE Spec2Model ----
(***************************************************************************)
(* Geometry decoding and event normalisation of the transport viewer       *)
(* (src/src/helpers.py, src/src/events.py) and the derivation of the ETA   *)
(* timeline (src/src/eta_chart.py).                                        *)
(*                                                                         *)
(* A byte is a number 0..255; bytes objects are sequences of bytes.  A     *)
(* Python str is a sequence of one-character strings.  A double is kept    *)
(* as its IEEE-754 binary64 image, most significant byte first, so that    *)
(* packing, unpacking and comparing are computed on the bits.              *)
(***************************************************************************)
EXTENDS Integers, Sequences, FiniteSets, TLC

VARIABLES
    pc,          \* position of the modelled call: "call" before, "done" after;
                 \* "derived" and "again" after the derivations
    wkb_input,   \* argument of _wkb_point_to_lonlat
    decoded,     \* outcome of _wkb_point_to_lonlat
    session_state,  \* st.session_state: the tables events_all, telematic_all
    selected_id,    \* argument selected_id of a loader
    table_arg,      \* argument events_all / telem_all of a loader
    called,         \* the loader that ran: "eta" or "telematics" ("" before)
    ret,            \* what the loader returned
    warnings,       \* the texts passed to st.warning, in order
    selected_row,         \* the REACHED_UNLOADING_AT field of the selected transport
    reached_unloading_at, \* what find_unloading_time returned
    chart,                \* outcome of eta_timeline_chart on the loaded events
    rechart,              \* outcomes of eta_timeline_chart called once more
    workers               \* the calls running side by side, one record each

vars == <<pc, wkb_input, decoded, session_state, selected_id, table_arg,
          called, ret, warnings, selected_row, reached_unloading_at, chart, rechart,
          workers>>

\* no calls running side by side
NoWorkers == <<>>

decodeVars == <<wkb_input, decoded>>
loaderVars == <<session_state, selected_id, table_arg, called, ret, warnings>>
chartVars == <<selected_row, reached_unloading_at, chart, rechart>>

(***************************************************************************)
(* Bounds of the model.                                                    *)
(***************************************************************************)
\* largest number of bytes appended after the 21 bytes of a point
MaxExtra == 4
\* largest number of rows of an event table
MaxRows == 3

(***************************************************************************)
(* Bytes and IEEE-754 binary64 images.                                     *)
(***************************************************************************)
RECURSIVE Pow2(_)
Pow2(n) == IF n = 0 THEN 1 ELSE 2 * Pow2(n - 1)

RECURSIVE Log2(_)
\* floor(log2 n) for n >= 1
Log2(n) == IF n < 2 THEN 0 ELSE 1 + Log2(n \div 2)

Abs(n) == IF n < 0 THEN -n ELSE n

RECURSIVE Reverse(_)
Reverse(s) == IF s = <<>> THEN <<>> ELSE Append(Reverse(Tail(s)), Head(s))

Zeros(n) == [i \in 1..n |-> 0]

\* Python slice s[a:b] with 0 <= a, on 0-based offsets
Slice(s, a, b) == SubSeq(s, a + 1, IF b > Len(s) THEN Len(s) ELSE b)

\* The binary64 image of k/2 (k a whole number of half degrees, |k| < 2^20):
\* sign bit, 11-bit biased exponent, 52-bit fraction, most significant byte
\* first.  This is what struct.pack(">d", k/2) yields.
DoubleOfHalves(k) ==
    IF k = 0 THEN Zeros(8)
    ELSE LET m    == Abs(k)
             p    == Log2(m)
             bexp == p - 1 + 1023
             frac == (m - Pow2(p)) * Pow2(20 - p)     \* top 20 fraction bits
             hi   == bexp * Pow2(20) + frac           \* bits 62..32
         IN  << (IF k < 0 THEN 128 ELSE 0) + (hi \div Pow2(24)),
                (hi \div Pow2(16)) % 256,
                (hi \div 256) % 256,
                hi % 256, 0, 0, 0, 0 >>

DExp(d) == (d[1] % 128) * 16 + (d[2] \div 16)
DFracZero(d) == d[2] % 16 = 0 /\ \A i \in 3..8 : d[i] = 0
DIsNaN(d) == DExp(d) = 2047 /\ ~DFracZero(d)
DSign(d) == d[1] \div 128
DMag(d) == [d EXCEPT ![1] = d[1] % 128]
DIsZero(d) == DMag(d) = Zeros(8)

RECURSIVE LexLe(_, _)
\* lexicographic <= on byte sequences of equal length
LexLe(a, b) ==
    IF a = <<>> THEN TRUE
    ELSE IF Head(a) < Head(b) THEN TRUE
    ELSE IF Head(a) > Head(b) THEN FALSE
    ELSE LexLe(Tail(a), Tail(b))

\* a <= b on doubles, as Python compares floats
DLe(a, b) ==
    /\ ~DIsNaN(a)
    /\ ~DIsNaN(b)
    /\ \/ DIsZero(a) /\ DIsZero(b)
       \/ DSign(a) = 1 /\ DSign(b) = 0
       \/ DSign(a) = 0 /\ DSign(b) = 0 /\ LexLe(DMag(a), DMag(b))
       \/ DSign(a) = 1 /\ DSign(b) = 1 /\ LexLe(DMag(b), DMag(a))

\* a float literal of the source with a whole value n
Lit(n) == DoubleOfHalves(2 * n)

(***************************************************************************)
(* Text codecs used by the decoder: str.strip, base64.b64decode with       *)
(* validate=True, bytes.fromhex.  A codec yields [ok, b]: ok = FALSE is    *)
(* the ValueError / binascii.Error the library raises.                     *)
(***************************************************************************)
Whitespace == {" ", "\t", "\n"}

HexChars == << "0", "1", "2", "3", "4", "5", "6", "7", "8", "9",
               "a", "b", "c", "d", "e", "f" >>

HexUpper == << "0", "1", "2", "3", "4", "5", "6", "7", "8", "9",
               "A", "B", "C", "D", "E", "F" >>

B64Chars == << "A", "B", "C", "D", "E", "F", "G", "H", "I", "J", "K", "L", "M",
               "N", "O", "P", "Q", "R", "S", "T", "U", "V", "W", "X", "Y", "Z",
               "a", "b", "c", "d", "e", "f", "g", "h", "i", "j", "k", "l", "m",
               "n", "o", "p", "q", "r", "s", "t", "u", "v", "w", "x", "y", "z",
               "0", "1", "2", "3", "4", "5", "6", "7", "8", "9", "+", "/" >>

Range(s) == {s[i] : i \in 1..Len(s)}

IndexOf(s, c) == CHOOSE i \in 1..Len(s) : s[i] = c

IsHexChar(c) == c \in Range(HexChars) \cup Range(HexUpper)

HexVal(c) == IF c \in Range(HexChars) THEN IndexOf(HexChars, c) - 1
             ELSE IndexOf(HexUpper, c) - 1

RECURSIVE LStrip(_)
LStrip(s) == IF s # <<>> /\ Head(s) \in Whitespace THEN LStrip(Tail(s)) ELSE s

\* str.strip()
Strip(s) == Reverse(LStrip(Reverse(LStrip(s))))

\* what a codec returns, or the exception class it raises
CodecOk(b) == [ok |-> TRUE, b |-> b, err |-> ""]
CodecError(cls) == [ok |-> FALSE, b |-> <<>>, err |-> cls]

\* isinstance(exception of class err, cls): binascii.Error subclasses ValueError
IsInstance(err, cls) == err = cls \/ (err = "binascii.Error" /\ cls = "ValueError")

RECURSIVE FromHex(_)
\* bytes.fromhex(s): pairs of hex digits, ASCII whitespace allowed between pairs
FromHex(s) ==
    IF s = <<>> THEN CodecOk(<<>>)
    ELSE IF Head(s) \in Whitespace THEN FromHex(Tail(s))
    ELSE IF Len(s) >= 2 /\ IsHexChar(s[1]) /\ IsHexChar(s[2])
         THEN LET r == FromHex(SubSeq(s, 3, Len(s)))
              IN  IF r.ok
                  THEN CodecOk(<<16 * HexVal(s[1]) + HexVal(s[2])>> \o r.b)
                  ELSE r
    ELSE CodecError("ValueError")

RECURSIVE B64DataLen(_)
\* length of the longest prefix without "="
B64DataLen(s) == IF s = <<>> \/ Head(s) = "=" THEN 0 ELSE 1 + B64DataLen(Tail(s))

B64Val(c) == IndexOf(B64Chars, c) - 1

RECURSIVE B64Groups(_)
\* the bytes of a run of alphabet characters whose length is not 1 mod 4
B64Groups(d) ==
    IF Len(d) = 0 THEN <<>>
    ELSE IF Len(d) = 2
         THEN << B64Val(d[1]) * 4 + (B64Val(d[2]) \div 16) >>
    ELSE IF Len(d) = 3
         THEN << B64Val(d[1]) * 4 + (B64Val(d[2]) \div 16),
                 (B64Val(d[2]) % 16) * 16 + (B64Val(d[3]) \div 4) >>
    ELSE << B64Val(d[1]) * 4 + (B64Val(d[2]) \div 16),
            (B64Val(d[2]) % 16) * 16 + (B64Val(d[3]) \div 4),
            (B64Val(d[3]) % 4) * 64 + B64Val(d[4]) >>
         \o B64Groups(SubSeq(d, 5, Len(d)))

\* base64.b64decode(s, validate=True): only alphabet characters, then only
\* "=" padding, the padding completing the last group
B64Decode(s) ==
    LET n    == B64DataLen(s)
        data == SubSeq(s, 1, n)
        pad  == Len(s) - n
        r    == n % 4
    IN  IF /\ \A i \in 1..n : data[i] \in Range(B64Chars)
           /\ \A i \in (n + 1)..Len(s) : s[i] = "="
           /\ \/ r = 0 /\ (pad = 0 \/ n > 0)
              \/ r = 2 /\ pad = 2
              \/ r = 3 /\ pad = 1
        THEN CodecOk(B64Groups(data))
        ELSE CodecError("binascii.Error")

\* the text forms a producer writes: lower-case hex and padded Base64
HexEncode(b) ==
    IF b = <<>> THEN <<>>
    ELSE [i \in 1..(2 * Len(b)) |->
            IF i % 2 = 1 THEN HexChars[(b[(i + 1) \div 2] \div 16) + 1]
            ELSE HexChars[(b[i \div 2] % 16) + 1]]

RECURSIVE B64Encode(_)
B64Encode(b) ==
    IF b = <<>> THEN <<>>
    ELSE IF Len(b) = 1
         THEN << B64Chars[(b[1] \div 4) + 1], B64Chars[(b[1] % 4) * 16 + 1], "=", "=" >>
    ELSE IF Len(b) = 2
         THEN << B64Chars[(b[1] \div 4) + 1],
                 B64Chars[(b[1] % 4) * 16 + (b[2] \div 16) + 1],
                 B64Chars[(b[2] % 16) * 4 + 1], "=" >>
    ELSE << B64Chars[(b[1] \div 4) + 1],
            B64Chars[(b[1] % 4) * 16 + (b[2] \div 16) + 1],
            B64Chars[(b[2] % 16) * 4 + (b[3] \div 64) + 1],
            B64Chars[(b[3] % 64) + 1] >>
         \o B64Encode(SubSeq(b, 4, Len(b)))

(***************************************************************************)
(* _wkb_point_to_lonlat (src/src/helpers.py).                              *)
(*                                                                         *)
(* An argument is [kind, b, s]: kind "None" (Python None), "bytes" (bytes  *)
(* or bytearray b), "str" (text s) or "other" (any other type, such as the *)
(* float NaN of an empty table cell).  An outcome is [tag, lon, lat]: tag  *)
(* "None" (return None), "Point" (return (lon, lat)) or "Raise" (an        *)
(* exception leaves the function).                                         *)
(***************************************************************************)
InNone == [kind |-> "None", b |-> <<>>, s |-> <<>>]
InOther == [kind |-> "other", b |-> <<>>, s |-> <<>>]
InBytes(b) == [kind |-> "bytes", b |-> b, s |-> <<>>]
InStr(s) == [kind |-> "str", b |-> <<>>, s |-> s]

RetNone == [tag |-> "None", lon |-> Zeros(8), lat |-> Zeros(8)]
Raised == [tag |-> "Raise", lon |-> Zeros(8), lat |-> Zeros(8)]
RetPoint(lon, lat) == [tag |-> "Point", lon |-> lon, lat |-> lat]

in_global(lon, lat) ==
    /\ DLe(Lit(-180), lon) /\ DLe(lon, Lit(180))
    /\ DLe(Lit(-90), lat) /\ DLe(lat, Lit(90))

in_europe(lon, lat) ==
    /\ DLe(Lit(-31), lon) /\ DLe(lon, Lit(60))
    /\ DLe(Lit(30), lat) /\ DLe(lat, Lit(75))

\* ToBytes with bytes.fromhex outside any try/except
ToBytes_HexUncaught(inp) ==
    IF inp.kind = "None" THEN [tag |-> "None", b |-> <<>>]
    ELSE IF inp.kind = "bytes" THEN [tag |-> "bytes", b |-> inp.b]
    ELSE IF inp.kind = "str"
         THEN LET s    == Strip(inp.s)
                  r64  == B64Decode(s)
                  rhex == FromHex(s)
              IN  IF r64.ok THEN [tag |-> "bytes", b |-> r64.b]
                  ELSE IF rhex.ok THEN [tag |-> "bytes", b |-> rhex.b]
                  ELSE [tag |-> "Raise", b |-> <<>>]
    ELSE [tag |-> "None", b |-> <<>>]

\* "Decode to bytes": [tag, b] with tag "bytes" (b holds them), "None" (the
\* function returns None) or "Raise" (an exception no except clause handles)
ToBytes(inp) ==
    IF inp.kind = "None" THEN [tag |-> "None", b |-> <<>>]
    ELSE IF inp.kind = "bytes" THEN [tag |-> "bytes", b |-> inp.b]
    ELSE IF inp.kind = "str"
         THEN LET s    == Strip(inp.s)
                  r64  == B64Decode(s)
                  rhex == FromHex(s)
              IN  IF r64.ok THEN [tag |-> "bytes", b |-> r64.b]
                  ELSE IF ~(IsInstance(r64.err, "binascii.Error")
                            \/ IsInstance(r64.err, "ValueError"))
                       THEN [tag |-> "Raise", b |-> <<>>]
                  ELSE IF rhex.ok THEN [tag |-> "bytes", b |-> rhex.b]
                  ELSE IF IsInstance(rhex.err, "ValueError")
                       THEN [tag |-> "None", b |-> <<>>]
                  ELSE [tag |-> "Raise", b |-> <<>>]
    ELSE [tag |-> "None", b |-> <<>>]

\* StripPrefix that never strips
StripPrefix_Never(b) == b

\* "Optional 4-byte prefix 00 00 00 00 before endian flag"
StripPrefix(b) ==
    IF Len(b) >= 9 /\ Slice(b, 0, 4) = Zeros(4) /\ b[5] \in {0, 1}
    THEN Slice(b, 4, Len(b))
    ELSE b

\* struct.unpack(endian + "I", b4)[0], as <<high 16 bits, low 16 bits>>
UnpackU32(endian, b4) ==
    LET m == IF endian = "<" THEN Reverse(b4) ELSE b4
    IN  << m[1] * 256 + m[2], m[3] * 256 + m[4] >>

\* struct.unpack(endian + "d", b8)[0], as the image of the double
UnpackDouble(endian, b8) == IF endian = "<" THEN Reverse(b8) ELSE b8

\* RawPair without the check of the geometry type
RawPair_AnyType(b) ==
    LET bad == [ok |-> FALSE, x |-> Zeros(8), y |-> Zeros(8)]
    IN  IF Len(b) < 1 + 4 + 16 THEN bad
        ELSE IF b[1] \notin {0, 1} THEN bad
        ELSE LET endian == IF b[1] = 1 THEN "<" ELSE ">"
             IN  [ok |-> TRUE,
                  x  |-> UnpackDouble(endian, Slice(b, 5, 13)),
                  y  |-> UnpackDouble(endian, Slice(b, 13, 21))]

\* the header checks and the unpacking of (x, y): [ok, x, y], ok = FALSE
\* where the function returns None
RawPair(b) ==
    LET bad == [ok |-> FALSE, x |-> Zeros(8), y |-> Zeros(8)]
    IN  IF Len(b) < 1 + 4 + 16 THEN bad
        ELSE IF b[1] \notin {0, 1} THEN bad
        ELSE LET endian == IF b[1] = 1 THEN "<" ELSE ">"
                 gtype  == UnpackU32(endian, Slice(b, 1, 5))
             IN  IF gtype # <<0, 1>> THEN bad
                 ELSE [ok |-> TRUE,
                       x  |-> UnpackDouble(endian, Slice(b, 5, 13)),
                       y  |-> UnpackDouble(endian, Slice(b, 13, 21))]

\* Orient without the rule that swaps a valid pair lying outside the box
Orient_NoTieBreak(x, y) ==
    LET orig_valid == in_global(x, y)
        swap_valid == in_global(y, x)
    IN  IF orig_valid /\ in_europe(x, y) THEN RetPoint(x, y)
        ELSE IF swap_valid /\ in_europe(y, x) THEN RetPoint(y, x)
        ELSE IF orig_valid THEN RetPoint(x, y)
        ELSE IF swap_valid THEN RetPoint(y, x)
        ELSE RetNone

\* Orient whose swap rule forgets to test the swapped pair
Orient_SwapUnchecked(x, y) ==
    LET orig_valid == in_global(x, y)
        swap_valid == in_global(y, x)
    IN  IF orig_valid /\ in_europe(x, y) THEN RetPoint(x, y)
        ELSE IF swap_valid /\ in_europe(y, x) THEN RetPoint(y, x)
        ELSE IF orig_valid /\ ~in_europe(x, y) THEN RetPoint(y, x)
        ELSE IF orig_valid THEN RetPoint(x, y)
        ELSE IF swap_valid THEN RetPoint(y, x)
        ELSE RetNone

\* the choice between (lon, lat) = (x, y) and (lon, lat) = (y, x)
Orient(x, y) ==
    LET lon        == x
        lat        == y
        lon_sw     == y
        lat_sw     == x
        orig_valid == in_global(lon, lat)
        swap_valid == in_global(lon_sw, lat_sw)
    IN  IF orig_valid /\ in_europe(lon, lat) THEN RetPoint(lon, lat)
        ELSE IF swap_valid /\ in_europe(lon_sw, lat_sw) THEN RetPoint(lon_sw, lat_sw)
        ELSE IF orig_valid /\ ~in_europe(lon, lat) /\ swap_valid
             THEN RetPoint(lon_sw, lat_sw)
        ELSE IF orig_valid THEN RetPoint(lon, lat)
        ELSE IF swap_valid THEN RetPoint(lon_sw, lat_sw)
        ELSE RetNone

wkb_point_to_lonlat(inp) ==
    LET tb == ToBytes(inp)
    IN  IF tb.tag = "None" THEN RetNone
        ELSE IF tb.tag = "Raise" THEN Raised
        ELSE LET raw == RawPair(StripPrefix(tb.b))
             IN  IF raw.ok THEN Orient(raw.x, raw.y) ELSE RetNone

(***************************************************************************)
(* The encodings handed to the decoder.                                    *)
(***************************************************************************)
\* struct.pack(endian + "I", n) for 0 <= n < 2^31
PackU32(endian, n) ==
    LET m == << n \div Pow2(24), (n \div Pow2(16)) % 256, (n \div 256) % 256, n % 256 >>
    IN  IF endian = "<" THEN Reverse(m) ELSE m

\* struct.pack(endian + "d", d)
PackDouble(endian, d) == IF endian = "<" THEN Reverse(d) ELSE d

EndianOf(flag) == IF flag = 0 THEN ">" ELSE "<"

\* byte-order flag, type code and the two doubles, all in the flag's byte order
EncodePoint(flag, gtype, x, y) ==
    <<flag>> \o PackU32(EndianOf(flag), gtype)
             \o PackDouble(EndianOf(flag), x) \o PackDouble(EndianOf(flag), y)

NaN == << 127, 248, 0, 0, 0, 0, 0, 0 >>
PosInf == << 127, 240, 0, 0, 0, 0, 0, 0 >>
NegZero == << 128, 0, 0, 0, 0, 0, 0, 0 >>
\* a subnormal double whose first four bytes read as the big-endian number 1
Subnormal == << 0, 0, 0, 1, 0, 0, 0, 0 >>

\* coordinates in half degrees: inside the box, on and just beyond each edge of
\* the box and of the globe
CoordHalves == { 0, 26, 104, 20, -160, 240, 400,
                 -62, -63, 120, 121, 60, 150, 360, 361, 180, 181 }

Doubles == {DoubleOfHalves(k) : k \in CoordHalves} \cup {NaN, PosInf, NegZero, Subnormal}

TypeCodes == {0, 1, 2, Pow2(24)}
\* byte-order flag and type code: every type code under the flags 0 and 1, and
\* a flag that is no byte order
Headers == ({0, 1} \X TypeCodes) \cup {<<2, 1>>}

\* an encoding with `extra` zero bytes appended (extra >= 0) or its last
\* -extra bytes missing (extra < 0)
Resize(b, extra) ==
    IF extra >= 0 THEN b \o Zeros(extra) ELSE SubSeq(b, 1, Len(b) + extra)

ByteInputs ==
    { Resize((IF pre THEN Zeros(4) ELSE <<>>) \o EncodePoint(h[1], h[2], x, y), e) :
        pre \in BOOLEAN, h \in Headers,
        x \in Doubles, y \in Doubles, e \in {-1, 0, MaxExtra} }

\* the texts: hex and Base64 of some encodings, bare and padded with white
\* space, and texts that are neither
TextSources ==
    { Resize((IF pre THEN Zeros(4) ELSE <<>>) \o EncodePoint(f, 1, x, y), e) :
        pre \in BOOLEAN, f \in {0, 1},
        x \in {Lit(13), Lit(52)}, y \in {Lit(13), Lit(52)}, e \in {-1, 0, 1} }

BadTexts == { <<>>, <<"z", "z">>, <<"0">>, <<"0", " ", "1">>, <<"=">>,
              <<"A", "A", "=">>, <<"0", "1", "-">>, <<" ">> }

TextInputs ==
    {HexEncode(b) : b \in TextSources}
    \cup {<<" ">> \o HexEncode(b) \o <<"\n">> : b \in TextSources}
    \cup {B64Encode(b) : b \in TextSources}
    \cup BadTexts

WkbInputs ==
    {InNone, InOther} \cup {InBytes(b) : b \in ByteInputs} \cup {InStr(s) : s \in TextInputs}

(***************************************************************************)
(* Tables (pandas DataFrame) and their cells (src/src/events.py).          *)
(*                                                                         *)
(* A cell is [t, s, n]: t = "str" (text s), "int" (n), "float" (the number *)
(* n/10), "nan" (missing), "ts" (a UTC instant, n seconds after            *)
(* 1970-01-01T00:00:00Z) or "nat" (missing instant).  A table is           *)
(* [isdf, cols, idx, data]: the column names in order, the index label of  *)
(* each row and the rows, each a sequence of cells in column order; None   *)
(* is NoDF.                                                                *)
(***************************************************************************)
VStr(s) == [t |-> "str", s |-> s, n |-> 0]
VInt(n) == [t |-> "int", s |-> <<>>, n |-> n]
VFloat(n) == [t |-> "float", s |-> <<>>, n |-> n]
VNaN == [t |-> "nan", s |-> <<>>, n |-> 0]
VTs(n) == [t |-> "ts", s |-> <<>>, n |-> n]
VNaT == [t |-> "nat", s |-> <<>>, n |-> 0]
\* None
VNone == [t |-> "none", s |-> <<>>, n |-> 0]

NoDF == [isdf |-> FALSE, cols |-> <<>>, idx |-> <<>>, data |-> <<>>]
DF(cols, idx, data) == [isdf |-> TRUE, cols |-> cols, idx |-> idx, data |-> data]
\* pd.DataFrame()
EmptyDF == DF(<<>>, <<>>, <<>>)

Digits == << "0", "1", "2", "3", "4", "5", "6", "7", "8", "9" >>

RECURSIVE NatToStr(_)
NatToStr(n) == IF n < 10 THEN << Digits[n + 1] >>
               ELSE NatToStr(n \div 10) \o << Digits[(n % 10) + 1] >>

\* str() of an int, of a float with one decimal, of NaN and of NaT
IntToStr(n) == IF n < 0 THEN <<"-">> \o NatToStr(-n) ELSE NatToStr(n)
FloatToStr(n) ==
    (IF n < 0 THEN <<"-">> ELSE <<>>)
        \o NatToStr(Abs(n) \div 10) \o <<".">> \o << Digits[(Abs(n) % 10) + 1] >>

PyStr(v) ==
    CASE v.t = "str" -> v.s
      [] v.t = "int" -> IntToStr(v.n)
      [] v.t = "float" -> FloatToStr(v.n)
      [] v.t = "nan" -> <<"n", "a", "n">>
      [] v.t = "nat" -> <<"N", "a", "T">>

\* c in frame.columns
HasCol(df, c) == \E i \in 1..Len(df.cols) : df.cols[i] = c

\* the position of the column named c
ColPos(df, c) == CHOOSE i \in 1..Len(df.cols) :
                    df.cols[i] = c /\ \A j \in 1..(i - 1) : df.cols[j] # c

\* frame[c]: the cells of column c, one for each row
Column(df, c) == [r \in 1..Len(df.data) |-> df.data[r][ColPos(df, c)]]

\* frame[c] = values: replaces column c, or appends it when it is new
SetColumn(df, c, values) ==
    IF HasCol(df, c)
    THEN [df EXCEPT !.data = [r \in 1..Len(df.data) |->
                                [df.data[r] EXCEPT ![ColPos(df, c)] = values[r]]]]
    ELSE [df EXCEPT !.cols = Append(df.cols, c),
                    !.data = [r \in 1..Len(df.data) |-> Append(df.data[r], values[r])]]

RECURSIVE SelectIndices(_, _)
\* the positions 1..n at which mask holds, ascending
SelectIndices(mask, n) ==
    IF n = 0 THEN <<>>
    ELSE IF mask[n] THEN Append(SelectIndices(mask, n - 1), n)
    ELSE SelectIndices(mask, n - 1)

\* frame[mask]: the rows at which mask holds, in order, with their labels
MaskRows(df, mask) ==
    LET keep == SelectIndices(mask, Len(df.data))
    IN  [df EXCEPT !.idx = [k \in 1..Len(keep) |-> df.idx[keep[k]]],
                   !.data = [k \in 1..Len(keep) |-> df.data[keep[k]]]]

\* frame.empty
IsEmpty(df) == Len(df.cols) = 0 \/ Len(df.data) = 0

\* frame.rename(columns=rename_map), rename_map a set of <<old, new>>
Rename(df, rename_map) ==
    [df EXCEPT !.cols = [i \in 1..Len(df.cols) |->
        IF \E m \in rename_map : m[1] = df.cols[i]
        THEN (CHOOSE m \in rename_map : m[1] = df.cols[i])[2]
        ELSE df.cols[i]]]

(***************************************************************************)
(* pd.to_datetime(..., errors="coerce", utc=True) on texts of the form     *)
(* YYYY-MM-DD(T| )HH:MM:SS followed by nothing, Z or (+|-)HH:MM, for the   *)
(* years 1970..2037; any other text is unparseable and becomes NaT.        *)
(***************************************************************************)
IsDigit(c) == c \in Range(Digits)
DigitVal(c) == IndexOf(Digits, c) - 1
Num2(s, i) == 10 * DigitVal(s[i]) + DigitVal(s[i + 1])
Num4(s, i) == 100 * Num2(s, i) + Num2(s, i + 2)

IsLeap(y) == (y % 4 = 0 /\ y % 100 # 0) \/ y % 400 = 0
DaysInMonth(y, m) ==
    IF m = 2 THEN (IF IsLeap(y) THEN 29 ELSE 28)
    ELSE IF m \in {4, 6, 9, 11} THEN 30 ELSE 31

RECURSIVE DaysBeforeMonth(_, _)
DaysBeforeMonth(y, m) ==
    IF m = 1 THEN 0 ELSE DaysBeforeMonth(y, m - 1) + DaysInMonth(y, m - 1)

\* days from 1970-01-01 to y-m-d, 1970 <= y <= 2037
DaysFromEpoch(y, m, d) ==
    365 * (y - 1970) + ((y - 1969) \div 4) + DaysBeforeMonth(y, m) + (d - 1)

TsShape(s) ==
    /\ Len(s) \in {19, 20, 25}
    /\ \A i \in {1, 2, 3, 4, 6, 7, 9, 10, 12, 13, 15, 16, 18, 19} : IsDigit(s[i])
    /\ s[5] = "-" /\ s[8] = "-" /\ s[11] \in {"T", " "}
    /\ s[14] = ":" /\ s[17] = ":"
    /\ Len(s) = 20 => s[20] = "Z"
    /\ Len(s) = 25 => /\ s[20] \in {"+", "-"}
                      /\ \A i \in {21, 22, 24, 25} : IsDigit(s[i])
                      /\ s[23] = ":"

TsFieldsOk(s) ==
    /\ Num4(s, 1) \in 1970..2037
    /\ Num2(s, 6) \in 1..12
    /\ Num2(s, 9) \in 1..DaysInMonth(Num4(s, 1), Num2(s, 6))
    /\ Num2(s, 12) < 24 /\ Num2(s, 15) < 60 /\ Num2(s, 18) < 60
    /\ Len(s) = 25 => (Num2(s, 21) < 24 /\ Num2(s, 24) < 60)

\* minutes east of UTC named by the text
TsOffset(s) ==
    IF Len(s) = 25
    THEN (IF s[20] = "-" THEN -1 ELSE 1) * (60 * Num2(s, 21) + Num2(s, 24))
    ELSE 0

ParseTs(s) ==
    IF TsShape(s) /\ TsFieldsOk(s)
    THEN VTs(86400 * DaysFromEpoch(Num4(s, 1), Num2(s, 6), Num2(s, 9))
             + 3600 * Num2(s, 12) + 60 * Num2(s, 15) + Num2(s, 18)
             - 60 * TsOffset(s))
    ELSE VNaT

\* one cell through pd.to_datetime(errors="coerce", utc=True)
ToDatetimeCell(v) ==
    CASE v.t = "str" -> ParseTs(v.s)
      [] v.t = "nan" -> VNaT
      [] v.t = "nat" -> VNaT
      [] v.t = "ts" -> v

to_datetime(col) == [r \in 1..Len(col) |-> ToDatetimeCell(col[r])]

(***************************************************************************)
(* The text steps of the coordinate extraction and pd.to_numeric.          *)
(***************************************************************************)
RECURSIVE LStripChars(_, _)
LStripChars(s, cs) == IF s # <<>> /\ Head(s) \in cs THEN LStripChars(Tail(s), cs) ELSE s

\* str.strip(chars)
StripChars(s, cs) == Reverse(LStripChars(Reverse(LStripChars(s, cs)), cs))

\* str.split(",", n=1): one part, or the text before and after the first ","
SplitFirstComma(s) ==
    IF \E i \in 1..Len(s) : s[i] = ","
    THEN LET i == CHOOSE i \in 1..Len(s) : s[i] = "," /\ \A j \in 1..(i - 1) : s[j] # ","
         IN  << SubSeq(s, 1, i - 1), SubSeq(s, i + 1, Len(s)) >>
    ELSE << s >>

\* a decimal numeral: optional sign, digits, optionally "." and one digit
IsNumeral(s) ==
    LET u == IF s # <<>> /\ Head(s) \in {"+", "-"} THEN Tail(s) ELSE s
        d == IF \E i \in 1..Len(u) : u[i] = "."
             THEN (CHOOSE i \in 1..Len(u) : u[i] = ".") - 1
             ELSE Len(u)
    IN  /\ d >= 1
        /\ \A i \in 1..d : IsDigit(u[i])
        /\ Len(u) \in {d, d + 1, d + 2}
        /\ Len(u) = d + 2 => IsDigit(u[d + 2])

RECURSIVE DigitsVal(_)
DigitsVal(s) == IF s = <<>> THEN 0 ELSE 10 * DigitsVal(SubSeq(s, 1, Len(s) - 1)) + DigitVal(s[Len(s)])

\* the number a numeral denotes, in tenths
NumeralTenths(s) ==
    LET neg == s # <<>> /\ Head(s) = "-"
        u   == IF s # <<>> /\ Head(s) \in {"+", "-"} THEN Tail(s) ELSE s
        d   == IF \E i \in 1..Len(u) : u[i] = "."
               THEN (CHOOSE i \in 1..Len(u) : u[i] = ".") - 1
               ELSE Len(u)
        v   == 10 * DigitsVal(SubSeq(u, 1, d))
               + (IF Len(u) = d + 2 THEN DigitVal(u[d + 2]) ELSE 0)
    IN  IF neg THEN -v ELSE v

\* pd.to_numeric(errors="coerce") of one part of a split; a part is
\* [has, s], has = FALSE where the split left no such part
ToNumericPart(part) ==
    IF part.has /\ IsNumeral(part.s) THEN VFloat(NumeralTenths(part.s)) ELSE VNaN

(***************************************************************************)
(* The loaders of src/src/events.py.  A loader yields [ret, warn]: the     *)
(* table it returns (NoDF for None) and the warnings it shows.             *)
(***************************************************************************)
\* no column found (None)
NoCol == ""

\* _pick_first_existing_column whose loop returns the last match
pick_last_existing_column(frame, candidates) ==
    IF \E i \in 1..Len(candidates) : HasCol(frame, candidates[i])
    THEN candidates[CHOOSE i \in 1..Len(candidates) :
                        /\ HasCol(frame, candidates[i])
                        /\ \A j \in (i + 1)..Len(candidates) : ~HasCol(frame, candidates[j])]
    ELSE NoCol

pick_first_existing_column(frame, candidates) ==
    IF \E i \in 1..Len(candidates) : HasCol(frame, candidates[i])
    THEN candidates[CHOOSE i \in 1..Len(candidates) :
                        /\ HasCol(frame, candidates[i])
                        /\ \A j \in 1..(i - 1) : ~HasCol(frame, candidates[j])]
    ELSE NoCol

\* "if isinstance(selected_id, (int, float)): selected_id = str(selected_id)"
NormalizeId(sel) == IF sel.t \in {"int", "float"} THEN VStr(PyStr(sel)) ELSE sel

\* the session table, overridden by the argument when that is a DataFrame
SourceTable(session_table, arg) ==
    IF arg.isdf THEN arg ELSE IF session_table.isdf THEN session_table ELSE NoDF

\* prefix test: t starts with the text p
StartsWith(t, p) == Len(t) >= Len(p) /\ SubSeq(t, 1, Len(p)) = p

\* FilterToTransport that keeps every row whose identifier starts with the target
FilterToTransport_Prefix(events, col, sel) ==
    MaskRows(events, [r \in 1..Len(events.data) |->
                        StartsWith(PyStr(Column(events, col)[r]), PyStr(sel))])

\* events[events[col].astype(str) == str(selected_id)].copy()
FilterToTransport(events, col, sel) ==
    MaskRows(events, [r \in 1..Len(events.data) |->
                        PyStr(Column(events, col)[r]) = PyStr(sel)])

\* EmptyResult that gives None for a transport without events
EmptyResult_None == [ret |-> NoDF, warn |-> <<>>]

\* "if events.empty: return pd.DataFrame()"
EmptyResult == [ret |-> EmptyDF, warn |-> <<>>]

\* frame[c] = pd.to_datetime(frame[c], errors="coerce", utc=True) if c is a column
ParseColumn(df, c) ==
    IF HasCol(df, c) THEN SetColumn(df, c, to_datetime(Column(df, c))) ELSE df

\* RenameEntry that renames the last present alternative, also when the
\* canonical name is a column already
RenameEntry_LastAlways(events, canonical, alternatives) ==
    IF pick_last_existing_column(events, alternatives) # NoCol
    THEN {<< pick_last_existing_column(events, alternatives), canonical >>}
    ELSE {}

\* the entry of rename_map for a canonical name: nothing when the name is a
\* column already or no alternative is
RenameEntry(events, canonical, alternatives) ==
    IF ~HasCol(events, canonical)
       /\ pick_first_existing_column(events, alternatives) # NoCol
    THEN {<< pick_first_existing_column(events, alternatives), canonical >>}
    ELSE {}

EtaIdCandidates == << "TRANSPORT_ID" >>
TelematicsIdCandidates == << "TRANSPORTID", "TRANSPORT_ID" >>

EtaWarning == "eta_events.csv does not contain a transport identifier column."
TelematicsWarning == "telematic_events.csv does not contain a transport identifier column."

load_eta_events_for_transport(sel, arg, session) ==
    LET sid    == NormalizeId(sel)
        events == SourceTable(session.events_all, arg)
    IN  IF ~events.isdf THEN [ret |-> NoDF, warn |-> <<>>]
        ELSE LET col == pick_first_existing_column(events, EtaIdCandidates)
             IN  IF col = NoCol THEN [ret |-> NoDF, warn |-> << EtaWarning >>]
                 ELSE LET filtered == FilterToTransport(events, col, sid)
                      IN  IF IsEmpty(filtered) THEN EmptyResult
                          ELSE LET rename_map ==
                                       RenameEntry(filtered, "created_at", << "CREATED_AT" >>)
                                       \cup RenameEntry(filtered, "calculated_eta",
                                                        << "CALCULATED_ETA" >>)
                                   parsed  == ParseColumn(ParseColumn(filtered, "created_at"),
                                                          "calculated_eta")
                                   renamed == IF rename_map # {} THEN Rename(parsed, rename_map)
                                              ELSE parsed
                               IN  [ret |-> renamed, warn |-> <<>>]

\* the lat and lon columns read from position_coordinates "(lat,lon)"
ExtractLatLon(events) ==
    IF ~HasCol(events, "position_coordinates") THEN events
    ELSE LET rows  == 1..Len(events.data)
             text  == [r \in rows |->
                         StripChars(Strip(PyStr(Column(events, "position_coordinates")[r])),
                                    {"(", ")"})]
             parts == [r \in rows |-> SplitFirstComma(text[r])]
             \* expand=True: as many columns as the longest split has parts
             width == IF \E r \in rows : Len(parts[r]) = 2 THEN 2 ELSE 1
             coords(k) == [r \in rows |->
                             IF Len(parts[r]) >= k THEN [has |-> TRUE, s |-> parts[r][k]]
                             ELSE [has |-> FALSE, s |-> <<>>]]
         IN  IF width = 2
             THEN SetColumn(SetColumn(events, "lat",
                                      [r \in rows |-> ToNumericPart(coords(1)[r])]),
                            "lon", [r \in rows |-> ToNumericPart(coords(2)[r])])
             ELSE events

load_telematics_events_for_transport(sel, arg, session) ==
    LET sid    == NormalizeId(sel)
        events == SourceTable(session.telematic_all, arg)
    IN  IF ~events.isdf THEN [ret |-> NoDF, warn |-> <<>>]
        ELSE LET col == pick_first_existing_column(events, TelematicsIdCandidates)
             IN  IF col = NoCol THEN [ret |-> NoDF, warn |-> << TelematicsWarning >>]
                 ELSE LET filtered == FilterToTransport(events, col, sid)
                      IN  IF IsEmpty(filtered) THEN EmptyResult
                          ELSE LET rename_map ==
                                       RenameEntry(filtered, "created_at",
                                                   << "CREATEDAT", "CREATED_AT" >>)
                                       \cup RenameEntry(filtered, "type", << "TYPE" >>)
                                       \cup RenameEntry(filtered, "position_coordinates",
                                                        << "POSITIONCOORDINATES",
                                                           "POSITION_COORDINATES" >>)
                                   renamed == IF rename_map # {} THEN Rename(filtered, rename_map)
                                              ELSE filtered
                                   parsed  == ParseColumn(renamed, "created_at")
                               IN  [ret |-> ExtractLatLon(parsed), warn |-> <<>>]

(***************************************************************************)
(* find_unloading_time of src/src/events.py and the derivation at the head *)
(* of eta_timeline_chart of src/src/eta_chart.py (lines 125-159): the      *)
(* table the chart is drawn from.  The outcome is [raised, df, arg]: the   *)
(* exception raised ("" for none), the derived table, and the caller's     *)
(* table as the call leaves it.                                            *)
(***************************************************************************)
\* pd.notna
notna(v) == v.t \notin {"nan", "nat", "none"}

\* the transport row is [has, v]: whether it has the field
\* REACHED_UNLOADING_AT, and the field's value
find_unloading_time(row) ==
    IF row.has /\ notna(row.v) THEN ToDatetimeCell(row.v) ELSE VNone

\* pd.to_datetime(scalar, errors="coerce", utc=True): None for None
ToDatetimeScalar(v) == IF v.t = "none" THEN VNone ELSE ToDatetimeCell(v)

UpperLetters == << "A", "B", "C", "D", "E", "F", "G", "H", "I", "J", "K", "L", "M",
                   "N", "O", "P", "Q", "R", "S", "T", "U", "V", "W", "X", "Y", "Z" >>
LowerLetters == << "a", "b", "c", "d", "e", "f", "g", "h", "i", "j", "k", "l", "m",
                   "n", "o", "p", "q", "r", "s", "t", "u", "v", "w", "x", "y", "z" >>

\* str.lower
Lower(s) == [i \in 1..Len(s) |->
                IF s[i] \in Range(UpperLetters)
                THEN LowerLetters[IndexOf(UpperLetters, s[i])] ELSE s[i]]

\* sub in s
Contains(s, sub) ==
    \E i \in 1..(Len(s) - Len(sub) + 1) : SubSeq(s, i, i + Len(sub) - 1) = sub

TagV2 == << "v", "2" >>
TagV3 == << "v", "3" >>
TagUnknown == << "u", "n", "k", "n", "o", "w", "n" >>

\* _derive_version on row r of the frame
derive_version(df, r) ==
    LET s == IF HasCol(df, "source") THEN Lower(PyStr(Column(df, "source")[r])) ELSE <<>>
        heuristic == IF Contains(s, TagV3) THEN TagV3
                     ELSE IF Contains(s, TagV2) THEN TagV2
                     ELSE TagUnknown
    IN  IF HasCol(df, "VERSION") /\ notna(Column(df, "VERSION")[r])
        THEN LET v == Lower(PyStr(Column(df, "VERSION")[r]))
             IN  IF Contains(v, <<"3">>) \/ Contains(v, TagV3) THEN TagV3
                 ELSE IF Contains(v, <<"2">>) \/ Contains(v, TagV2) THEN TagV2
                 ELSE heuristic
        ELSE heuristic

\* ReplaceVersion that puts a "v" in front of every value
ReplaceVersion_AddV(s) == <<"v">> \o s

\* .replace({"2": "v2", "v2": "v2", "3": "v3", "v3": "v3"}): whole values only
ReplaceVersion(s) ==
    IF s = <<"2">> THEN TagV2 ELSE IF s = <<"3">> THEN TagV3 ELSE s

\* the version column: derived where there is none, else normalised
VersionColumn(df) ==
    IF ~HasCol(df, "version")
    THEN [r \in 1..Len(df.data) |-> VStr(derive_version(df, r))]
    ELSE [r \in 1..Len(df.data) |->
            VStr(ReplaceVersion(Lower(PyStr(Column(df, "version")[r]))))]

\* RelativeHours with the operands exchanged
RelativeHours_Reversed(eta, unload_ts) ==
    IF eta.t = "ts" /\ unload_ts.t = "ts" THEN VFloat((unload_ts.n - eta.n) \div 360)
    ELSE VNaN

\* (calculated_eta - unload_ts) / pd.Timedelta(hours=1), in tenths of an hour;
\* the instants of the model are whole multiples of six minutes
RelativeHours(eta, unload_ts) ==
    IF eta.t = "ts" /\ unload_ts.t = "ts" THEN VFloat((eta.n - unload_ts.n) \div 360)
    ELSE VNaN

\* dropna(subset=["created_at", "eta_relative_hr"])
DropNa(df) ==
    MaskRows(df, [r \in 1..Len(df.data) |->
                    /\ notna(Column(df, "created_at")[r])
                    /\ notna(Column(df, "eta_relative_hr")[r])])

RECURSIVE SortedPositions(_, _)
\* the positions 1..n ordered by key, equal keys in their original order (the
\* sort of fewer than 17 elements is an insertion sort)
SortedPositions(keys, n) ==
    IF n = 0 THEN <<>>
    ELSE LET before == SortedPositions(keys, n - 1)
             c == Cardinality({k \in 1..Len(before) : keys[before[k]] <= keys[n]})
         IN  SubSeq(before, 1, c) \o << n >> \o SubSeq(before, c + 1, Len(before))

\* SortValues that leaves the rows as they are
SortValues_Unsorted(df) == df

\* sort_values("created_at") of a frame without missing created_at
SortValues(df) ==
    LET order == SortedPositions([r \in 1..Len(df.data) |-> Column(df, "created_at")[r].n],
                                 Len(df.data))
    IN  [df EXCEPT !.idx = [k \in 1..Len(order) |-> df.idx[order[k]]],
                   !.data = [k \in 1..Len(order) |-> df.data[order[k]]]]

\* CopyFrame that hands back the caller's frame itself
CopyFrame_Alias(df) == [fresh |-> FALSE, df |-> df]

\* events_df.copy(): a frame of its own with the same contents
CopyFrame(df) == [fresh |-> TRUE, df |-> df]

\* what the caller's frame holds after the column assignments that made
\* `written`: its old contents when the assignments went to a copy
CallerFrame(copy, written) == IF copy.fresh THEN copy.df ELSE written

eta_timeline_chart(events_df, reached) ==
    LET copy == CopyFrame(events_df)
        e0   == copy.df
    IN  IF ~HasCol(e0, "created_at")
        THEN [raised |-> "KeyError", df |-> NoDF, arg |-> CallerFrame(copy, e0)]
        ELSE
        LET e1 == ParseColumn(e0, "created_at")
        IN  IF ~HasCol(e1, "calculated_eta")
            THEN [raised |-> "KeyError", df |-> NoDF, arg |-> CallerFrame(copy, e1)]
            ELSE
            LET e2 == ParseColumn(e1, "calculated_eta")
                unload_ts == ToDatetimeScalar(reached)
            IN  \* a datetime column minus None
                IF unload_ts.t = "none"
                THEN [raised |-> "TypeError", df |-> NoDF, arg |-> CallerFrame(copy, e2)]
                ELSE
                LET e3 == SetColumn(e2, "eta_relative_hr",
                             [r \in 1..Len(e2.data) |->
                                 RelativeHours(Column(e2, "calculated_eta")[r], unload_ts)])
                    e4 == SetColumn(e3, "version", VersionColumn(e3))
                IN  [raised |-> "", df |-> SortValues(DropNa(e4)),
                     arg |-> CallerFrame(copy, e4)]

\* the loaders' variables while the decoder is looked at, and the decoder's
\* while the loaders are
LoaderIdle ==
    /\ session_state = [events_all |-> NoDF, telematic_all |-> NoDF]
    /\ selected_id = VNaN
    /\ table_arg = NoDF
    /\ called = ""
    /\ ret = NoDF
    /\ warnings = <<>>

DecodeIdle == wkb_input = InNone /\ decoded = RetNone

\* no chart drawn
NoChart == [raised |-> "", df |-> NoDF]

ChartIdle ==
    /\ selected_row = [has |-> FALSE, v |-> VNaN]
    /\ reached_unloading_at = VNone
    /\ chart = NoChart
    /\ rechart = [same |-> NoChart, again |-> NoChart]

(***************************************************************************)
(* The event tables and the calls of the loaders.                          *)
(***************************************************************************)
Two(n) == << Digits[(n \div 10) + 1], Digits[(n % 10) + 1] >>

\* the text 2024-MM-DDTHH:00:00 followed by zone
IsoText(mo, d, h, zone) ==
    << "2", "0", "2", "4", "-" >> \o Two(mo) \o <<"-">> \o Two(d) \o <<"T">> \o Two(h)
        \o << ":", "0", "0", ":", "0", "0" >> \o zone

\* the cells of a timestamp column: UTC, with an offset, without a zone,
\* unparseable, an impossible date, missing
TsCells == << VStr(IsoText(1, 1, 10, <<"Z">>)),
              VStr(<<"n", "/", "a">>),
              VStr(IsoText(1, 1, 12, << "+", "0", "2", ":", "0", "0" >>)),
              VNaN,
              VStr(IsoText(1, 2, 8, <<>>)),
              VStr(IsoText(2, 30, 8, <<"Z">>)) >>

\* the cells of a position column
PosCells == << VStr(<< "(", "5", "2", ".", "1", ",", "1", "3", ".", "4", ")" >>),
               VStr(<< "(", "a", "b", "c", ",", "1", "3", ")" >>),
               VNaN,
               VStr(<< "5", "2", ".", "1" >>),
               VStr(<< "(", "-", "5", ",", ")" >>) >>

\* the cells of a position column none of which holds a comma
PosCellsNoComma == << VStr(<< "5", "2", ".", "1" >>), VNaN, VStr(<< "(", "5", "2", ")" >>) >>

TypeCells == << VStr(<< "g", "p", "s" >>), VStr(<< "e", "t", "a" >>) >>

Cycle(cells, k) == cells[(k % Len(cells)) + 1]

S123 == << "1", "2", "3" >>
IdCells == { VStr(S123), VInt(123), VStr(<< "1", "2", "3", "4" >>),
             VStr(<< "a", "b", "c" >>), VStr(<< "A", "B", "C" >>), VFloat(1230) }

SelectedIds == { VStr(S123), VInt(123), VStr(<< "a", "b", "c" >>),
                 VStr(<< "1", "2", "3", ".", "0" >>) }

\* the cell of column c in row i (1-based) of a table with identifiers ids and
\* cell pattern p; TRANSPORTID holds the identifiers in reverse row order
CellOf(c, i, ids, p) ==
    CASE c \in {"TRANSPORT_ID", "transport_id", "ID"} -> ids[i]
      [] c = "TRANSPORTID" -> ids[Len(ids) + 1 - i]
      [] c \in {"created_at", "CREATED_AT", "CREATEDAT"} -> Cycle(TsCells, i + p)
      [] c \in {"calculated_eta", "CALCULATED_ETA"} -> Cycle(TsCells, i + p + 2)
      [] c \in {"position_coordinates", "POSITIONCOORDINATES", "POSITION_COORDINATES"} ->
            IF p % 2 = 0 THEN Cycle(PosCells, i + p) ELSE Cycle(PosCellsNoComma, i + p)
      [] c \in {"type", "TYPE"} -> Cycle(TypeCells, i + p)

MakeTable(cols, ids, p) ==
    DF(cols, [i \in 1..Len(ids) |-> i - 1],
       [i \in 1..Len(ids) |-> [j \in 1..Len(cols) |-> CellOf(cols[j], i, ids, p)]])

SeqsUpTo(S, n) == UNION {[1..k -> S] : k \in 0..n}

\* the identifier columns a table may have
IdLayouts == { << "TRANSPORT_ID", "CREATED_AT", "CALCULATED_ETA" >>,
               << "TRANSPORTID", "TRANSPORT_ID", "CREATEDAT", "POSITIONCOORDINATES" >>,
               << "TRANSPORT_ID", "TRANSPORTID", "created_at" >>,
               << "TRANSPORTID", "CREATED_AT", "TYPE" >>,
               << "transport_id", "CREATED_AT", "CALCULATED_ETA" >>,
               << "ID", "created_at" >> }

\* the spellings of the other columns, under a fixed identifier column
ColumnLayouts == { << "TRANSPORT_ID", "created_at", "calculated_eta" >>,
                   << "TRANSPORT_ID", "CREATED_AT", "calculated_eta" >>,
                   << "TRANSPORT_ID", "created_at", "CALCULATED_ETA" >>,
                   << "TRANSPORT_ID", "CREATED_AT", "CALCULATED_ETA", "created_at" >>,
                   << "TRANSPORT_ID", "CALCULATED_ETA" >>,
                   << "TRANSPORT_ID", "CREATED_AT" >>,
                   << "TRANSPORT_ID" >>,
                   << "TRANSPORT_ID", "CREATED_AT", "CREATEDAT", "TYPE", "POSITION_COORDINATES" >>,
                   << "TRANSPORT_ID", "CREATEDAT", "type", "POSITIONCOORDINATES",
                      "POSITION_COORDINATES" >>,
                   << "TRANSPORT_ID", "created_at", "CREATEDAT", "TYPE", "position_coordinates",
                      "POSITIONCOORDINATES" >> }

\* identifiers of the tables whose columns vary: rows of the selected
\* transport around a row of another
FixedIds == [i \in 1..MaxRows |-> IF i = 2 THEN VStr(<< "1", "2", "3", "4" >>) ELSE VStr(S123)]

\* a table of another load, held in the session while an argument is passed
OtherTable == MakeTable(<< "TRANSPORT_ID", "created_at" >>, << VInt(123), VInt(123) >>, 0)

\* a call: the selected identifier, the table argument and the session
Call(sel, arg, ev, tel) ==
    [sel |-> sel, arg |-> arg, session |-> [events_all |-> ev, telematic_all |-> tel]]

Calls ==
    \* tables passed as the argument, identifiers varying
    { Call(sel, MakeTable(cols, ids, 0), NoDF, NoDF) :
        sel \in SelectedIds, cols \in IdLayouts, ids \in SeqsUpTo(IdCells, MaxRows) }
    \* tables passed as the argument, columns and cells varying
    \cup { Call(VStr(S123), MakeTable(cols, FixedIds, p), NoDF, NoDF) :
            cols \in ColumnLayouts, p \in 0..5 }
    \* tables held in the session, with and without an overriding argument
    \cup { Call(sel, NoDF, MakeTable(cols, FixedIds, 0), MakeTable(cols, FixedIds, 0)) :
            sel \in SelectedIds, cols \in IdLayouts }
    \cup { Call(sel, MakeTable(cols, FixedIds, 0), OtherTable, OtherTable) :
            sel \in SelectedIds, cols \in IdLayouts }
    \* no table at all
    \cup { Call(sel, NoDF, NoDF, NoDF) : sel \in SelectedIds }

InitLoad ==
    /\ pc = "call"
    /\ DecodeIdle
    /\ workers = NoWorkers
    /\ \E c \in Calls :
        /\ selected_id = c.sel
        /\ table_arg = c.arg
        /\ session_state = c.session
    /\ called = ""
    /\ ret = NoDF
    /\ warnings = <<>>
    /\ ChartIdle

LoadEta ==
    /\ pc = "call"
    /\ LET r == load_eta_events_for_transport(selected_id, table_arg, session_state)
       IN  /\ ret' = r.ret
           /\ warnings' = warnings \o r.warn
    /\ called' = "eta"
    /\ pc' = "done"
    /\ UNCHANGED <<workers, decodeVars, chartVars, session_state, selected_id, table_arg>>

LoadTelematics ==
    /\ pc = "call"
    /\ LET r == load_telematics_events_for_transport(selected_id, table_arg, session_state)
       IN  /\ ret' = r.ret
           /\ warnings' = warnings \o r.warn
    /\ called' = "telematics"
    /\ pc' = "done"
    /\ UNCHANGED <<workers, decodeVars, chartVars, session_state, selected_id, table_arg>>

NextLoad == LoadEta \/ LoadTelematics

SpecLoad == InitLoad /\ [][NextLoad]_vars

(***************************************************************************)
(* The selection of a transport: its ETA events are loaded, the unloading  *)
(* time is read from its row and the timeline is derived                   *)
(* (src/src/ui/views.py, lines 226-244).  The derivation is then applied   *)
(* once more, to the same table and to its own output.                     *)
(***************************************************************************)
\* the cells of a VERSION / version column and of a source column
VersionCells == << VStr(<< "V", "3", "_", "M", "O", "D", "E", "L" >>),
                   VStr(<< "2" >>),
                   VNaN,
                   VStr(<< "v", "2", "t", "o", "3" >>),
                   VStr(<< "b", "e", "t", "a" >>),
                   VStr(<< "V", "2" >>) >>

SourceCells == << VStr(<< "p", "r", "e", "d", "i", "c", "t", "o", "r", "-", "v", "2" >>),
                  VStr(<< "V", "3", "-", "e", "n", "g", "i", "n", "e" >>),
                  VStr(<< "m", "a", "n", "u", "a", "l" >>),
                  VNaN >>

\* the pairs (created_at, calculated_eta) of a row, as positions in TsCells
TimePairs == { <<1, 1>>, <<5, 1>>, <<3, 5>>, <<2, 5>>, <<1, 4>>, <<5, 5>> }

\* the columns of the ETA tables that are charted
ChartLayouts == { << "TRANSPORT_ID", "created_at", "calculated_eta" >>,
                  << "TRANSPORT_ID", "created_at", "calculated_eta", "VERSION" >>,
                  << "TRANSPORT_ID", "created_at", "calculated_eta", "version" >>,
                  << "TRANSPORT_ID", "created_at", "calculated_eta", "source" >>,
                  << "TRANSPORT_ID", "created_at", "calculated_eta", "VERSION", "source" >>,
                  << "TRANSPORT_ID", "created_at", "calculated_eta", "version", "source" >>,
                  << "TRANSPORT_ID", "CREATED_AT", "CALCULATED_ETA", "VERSION", "source" >>,
                  << "TRANSPORT_ID", "created_at", "source" >>,
                  << "TRANSPORT_ID", "CALCULATED_ETA", "VERSION" >> }

\* row i of a charted table: times[i] picks its timestamps, p its tags
ChartCellOf(c, i, times, p) ==
    CASE c = "TRANSPORT_ID" -> VStr(S123)
      [] c \in {"created_at", "CREATED_AT"} -> TsCells[times[i][1]]
      [] c \in {"calculated_eta", "CALCULATED_ETA"} -> TsCells[times[i][2]]
      [] c \in {"VERSION", "version"} -> Cycle(VersionCells, i + p)
      [] c = "source" -> Cycle(SourceCells, i + p)

ChartTable(cols, times, p) ==
    DF(cols, [i \in 1..Len(times) |-> i - 1],
       [i \in 1..Len(times) |-> [j \in 1..Len(cols) |-> ChartCellOf(cols[j], i, times, p)]])

\* the field REACHED_UNLOADING_AT of the transport's row: texts, parsed
\* values, missing values, and no such field
Instant0800 == 86400 * DaysFromEpoch(2024, 1, 1) + 8 * 3600
UnloadingRows ==
    { [has |-> TRUE, v |-> v] :
        v \in { VStr(IsoText(1, 1, 8, <<"Z">>)),
                VStr(IsoText(1, 1, 12, << "+", "0", "2", ":", "0", "0" >>)),
                VTs(Instant0800 + 86400),
                VStr(<< "s", "o", "o", "n" >>),
                VNaN,
                VNaT } }
    \cup { [has |-> FALSE, v |-> VNaN] }

\* a selection: the events table, where it is held, and the transport's row
Selection(table, held, row) ==
    [arg |-> IF held = "arg" THEN table ELSE NoDF,
     session |-> [events_all |-> IF held = "session" THEN table ELSE NoDF,
                  telematic_all |-> NoDF],
     row |-> row]

\* rows in the same order of time, with ties, in reverse order
FixedTimes == << <<5, 1>>, <<3, 5>>, <<1, 1>>, <<2, 5>>, <<1, 4>> >>

Selections ==
    \* the timestamps of the rows varying
    { Selection(ChartTable(<< "TRANSPORT_ID", "created_at", "calculated_eta", "source" >>,
                           times, 0), "arg", row) :
        times \in SeqsUpTo(TimePairs, MaxRows) \ {<<>>},
        row \in { [has |-> TRUE, v |-> VStr(IsoText(1, 1, 8, <<"Z">>))],
                  [has |-> FALSE, v |-> VNaN] } }
    \* the columns, the tags and the unloading time varying
    \cup { Selection(ChartTable(cols, SubSeq(FixedTimes, 1, n), p), "arg", row) :
            cols \in ChartLayouts, n \in 1..MaxRows, p \in 0..11, row \in UnloadingRows }
    \* the table held in the session
    \cup { Selection(ChartTable(cols, SubSeq(FixedTimes, 1, n), 0), "session", row) :
            cols \in ChartLayouts, n \in 1..MaxRows, row \in UnloadingRows }

InitChart ==
    /\ pc = "call"
    /\ DecodeIdle
    /\ workers = NoWorkers
    /\ selected_id = VStr(S123)
    /\ \E s \in Selections :
        /\ table_arg = s.arg
        /\ session_state = s.session
        /\ selected_row = s.row
    /\ called = ""
    /\ ret = NoDF
    /\ warnings = <<>>
    /\ reached_unloading_at = VNone
    /\ chart = NoChart
    /\ rechart = [same |-> NoChart, again |-> NoChart]

\* views.py 232-244: nothing is drawn for None or for an empty table
Derive ==
    /\ pc = "done" /\ called = "eta"
    /\ ret.isdf /\ ~IsEmpty(ret)
    /\ LET reached == find_unloading_time(selected_row)
           r == eta_timeline_chart(ret, reached)
       IN  /\ reached_unloading_at' = reached
           /\ chart' = [raised |-> r.raised, df |-> r.df]
           /\ ret' = r.arg
    /\ pc' = "derived"
    /\ UNCHANGED <<workers, decodeVars, session_state, selected_id, table_arg, called, warnings,
                   selected_row, rechart>>

\* the derivation called again on the same table, and on its own output
DeriveAgain ==
    /\ pc = "derived" /\ chart.raised = ""
    /\ LET same  == eta_timeline_chart(ret, reached_unloading_at)
           again == eta_timeline_chart(chart.df, reached_unloading_at)
       IN  rechart' = [same |-> [raised |-> same.raised, df |-> same.df],
                       again |-> [raised |-> again.raised, df |-> again.df]]
    /\ pc' = "again"
    /\ UNCHANGED <<workers, decodeVars, loaderVars, selected_row, reached_unloading_at, chart>>

NextChart == LoadEta \/ LoadTelematics \/ Derive \/ DeriveAgain

SpecChart == InitChart /\ [][NextChart]_vars

(***************************************************************************)
(* The runs of the application (src/app.py): every run executes the ETA    *)
(* events source block, which loads the table or fails, and then a         *)
(* transport may be selected; st.session_state lasts from run to run.      *)
(***************************************************************************)
EtaNotLoadedWarning ==
    "ETA events CSV not loaded. Charts will be unavailable until this loads."

\* what the source block gets in events_all: a table, or None when load_csv
\* raised or Upload was chosen and no file given
SourceOutcomes ==
    { [choice |-> c, events_all |-> ChartTable(cols, SubSeq(FixedTimes, 1, n), 0)] :
        c \in {"Local file", "Upload"}, n \in 1..MaxRows,
        cols \in { << "TRANSPORT_ID", "created_at", "calculated_eta" >>,
                   << "TRANSPORT_ID", "CREATED_AT", "CALCULATED_ETA", "VERSION", "source" >>,
                   << "TRANSPORT_ID", "created_at", "source" >> } }
    \cup { [choice |-> c, events_all |-> NoDF] : c \in {"Local file", "Upload"} }

InitApp ==
    /\ pc = "source"
    /\ DecodeIdle
    /\ workers = NoWorkers
    /\ session_state = [events_all |-> NoDF, telematic_all |-> NoDF]
    /\ selected_id = VStr(S123)
    /\ selected_row \in { [has |-> TRUE, v |-> VStr(IsoText(1, 1, 8, <<"Z">>))],
                          [has |-> TRUE, v |-> VTs(Instant0800 + 86400)],
                          [has |-> TRUE, v |-> VNaT] }
    /\ table_arg = NoDF
    /\ called = ""
    /\ ret = NoDF
    /\ warnings = <<>>
    /\ reached_unloading_at = VNone
    /\ chart = NoChart
    /\ rechart = [same |-> NoChart, again |-> NoChart]

\* app.py 50-75: a loaded table is cached in the session; otherwise the
\* warning is shown and the session is left as it is
EtaSourceBlock ==
    /\ pc = "source"
    /\ \E o \in SourceOutcomes :
        /\ table_arg' = o.events_all
        /\ IF o.events_all.isdf
           THEN /\ session_state' = [session_state EXCEPT !.events_all = o.events_all]
                /\ warnings' = warnings
           ELSE /\ session_state' = session_state
                /\ warnings' = Append(warnings, EtaNotLoadedWarning)
    /\ pc' = "call"
    /\ UNCHANGED <<workers, decodeVars, chartVars, selected_id, called, ret>>

\* the script runs again from the top with the session it left; the
\* selection block then loads from the cached table (app.py 197, and
\* views.py 227-230 when the run's own events_all is None)
Rerun ==
    /\ pc \in {"call", "done", "derived"}
    /\ pc' = "source"
    /\ table_arg' = NoDF
    /\ called' = ""
    /\ ret' = NoDF
    /\ warnings' = <<>>
    /\ reached_unloading_at' = VNone
    /\ chart' = NoChart
    /\ UNCHANGED <<workers, decodeVars, session_state, selected_id, selected_row, rechart>>

NextApp == EtaSourceBlock \/ LoadEta \/ Derive \/ Rerun

SpecApp == InitApp /\ [][NextApp]_vars

(***************************************************************************)
(* Calls running side by side over the tables of one session: each worker  *)
(* makes one call (a loader, the derivation on the shared ETA table, or    *)
(* the decoder), one statement at a time, in any order with the other.     *)
(* A worker's frame is [fresh, df]: a frame that is not fresh is the       *)
(* shared table itself, read and written where the session holds it.       *)
(***************************************************************************)
WorkerIds == {1, 2}

\* the session key of the table a call works on
Origin(op) == IF op = "telematics" THEN "telematic_all" ELSE "events_all"

\* the statements of a call, in order
Statements(op) ==
    CASE op = "eta" -> << "source", "filter", "created_at", "calculated_eta", "return" >>
      [] op = "telematics" -> << "source", "filter", "rename", "created_at", "latlon", "return" >>
      [] op = "derive" -> << "copy", "created_at", "calculated_eta", "eta_relative_hr",
                             "version", "return" >>
      [] op = "decode" -> << "decode" >>

\* the statement after statement s of a call
NextStatement(op, s) ==
    LET i == CHOOSE k \in 1..Len(Statements(op)) : Statements(op)[k] = s
    IN  IF i = Len(Statements(op)) THEN "done" ELSE Statements(op)[i + 1]

\* the table a worker's local name events / events_df stands for
Deref(wk, session) ==
    IF wk.frame.fresh THEN wk.frame.df ELSE session[Origin(wk.op)]

\* the worker after it returned v or raised
Returned(wk, raised, v) ==
    [wk EXCEPT !.pc = "done", !.result = [raised |-> raised, v |-> v]]

\* a column assignment of a call: the exception it raises ("" for none) and
\* the frame with the column assigned
Assignment(wk, df) ==
    CASE wk.op \in {"eta", "telematics"} /\ wk.pc \in {"created_at", "calculated_eta"} ->
            [raised |-> "", df |-> ParseColumn(df, wk.pc)]
      [] wk.op = "telematics" /\ wk.pc = "latlon" ->
            [raised |-> "", df |-> ExtractLatLon(df)]
      [] wk.op = "derive" /\ wk.pc \in {"created_at", "calculated_eta"} ->
            IF HasCol(df, wk.pc) THEN [raised |-> "", df |-> ParseColumn(df, wk.pc)]
            ELSE [raised |-> "KeyError", df |-> df]
      [] wk.op = "derive" /\ wk.pc = "eta_relative_hr" ->
            LET unload_ts == ToDatetimeScalar(wk.reached)
            IN  IF unload_ts.t = "none" THEN [raised |-> "TypeError", df |-> df]
                ELSE [raised |-> "",
                      df |-> SetColumn(df, "eta_relative_hr",
                                [r \in 1..Len(df.data) |->
                                    RelativeHours(Column(df, "calculated_eta")[r], unload_ts)])]
      [] wk.op = "derive" /\ wk.pc = "version" ->
            [raised |-> "", df |-> SetColumn(df, "version", VersionColumn(df))]

\* the shared tables: rows of transport "123" around a row of "1234"
SharedEvents ==
    { MakeTable(cols, FixedIds, p) :
        cols \in { << "TRANSPORT_ID", "created_at", "calculated_eta" >>,
                   << "TRANSPORT_ID", "CREATED_AT", "CALCULATED_ETA" >>,
                   << "TRANSPORT_ID", "created_at" >> },
        p \in {0, 2} }

SharedTelematics ==
    { MakeTable(cols, FixedIds, 0) :
        cols \in { << "TRANSPORTID", "CREATEDAT", "POSITIONCOORDINATES" >>,
                   << "ID", "created_at" >> } }
    \cup { NoDF }

\* the calls of the two workers: each for a transport of its own
WorkerCalls(w) ==
    { [op |-> op,
       sel |-> IF w = 1 THEN VStr(S123) ELSE VStr(<< "1", "2", "3", "4" >>),
       input |-> IF w = 1 THEN InBytes(EncodePoint(1, 1, DoubleOfHalves(26), DoubleOfHalves(104)))
                 ELSE InBytes(EncodePoint(0, 1, DoubleOfHalves(26), DoubleOfHalves(104))),
       reached |-> IF w = 1 THEN VTs(Instant0800 + 86400) ELSE VNone,
       pc |-> Statements(op)[1],
       frame |-> [fresh |-> TRUE, df |-> NoDF],
       result |-> [raised |-> "", v |-> NoDF]] :
      op \in {"eta", "telematics", "derive", "decode"} }

InitConcurrent ==
    /\ pc = "call"
    /\ DecodeIdle
    /\ ChartIdle
    /\ selected_id = VNaN
    /\ table_arg = NoDF
    /\ called = ""
    /\ ret = NoDF
    /\ warnings = <<>>
    /\ \E ev \in SharedEvents, tel \in SharedTelematics :
        session_state = [events_all |-> ev, telematic_all |-> tel]
    /\ workers \in [WorkerIds -> UNION { WorkerCalls(w) : w \in WorkerIds }]
    /\ \A w \in WorkerIds : workers[w] \in WorkerCalls(w)

idleVars == <<pc, decodeVars, chartVars, selected_id, table_arg, called, ret, warnings>>

\* events.py 23-29, 80-86: the session table is copied, or None returned
Source(w) ==
    /\ workers[w].pc = "source"
    /\ LET wk == workers[w]
           shared == session_state[Origin(wk.op)]
       IN  workers' = [workers EXCEPT ![w] =
                          IF ~shared.isdf THEN Returned(wk, "", NoDF)
                          ELSE [wk EXCEPT !.frame = CopyFrame(shared),
                                          !.pc = NextStatement(wk.op, "source")]]
    /\ UNCHANGED <<session_state, idleVars>>

\* events.py 32-40, 89-97: the rows of the transport, in a frame of their own
Filter(w) ==
    /\ workers[w].pc = "filter"
    /\ LET wk == workers[w]
           events == Deref(wk, session_state)
           col == pick_first_existing_column(events,
                     IF wk.op = "eta" THEN EtaIdCandidates ELSE TelematicsIdCandidates)
       IN  workers' = [workers EXCEPT ![w] =
                IF col = NoCol THEN Returned(wk, "", NoDF)
                ELSE LET filtered == FilterToTransport(events, col, NormalizeId(wk.sel))
                     IN  IF IsEmpty(filtered) THEN Returned(wk, "", EmptyResult.ret)
                         ELSE [wk EXCEPT !.frame = [fresh |-> TRUE, df |-> filtered],
                                         !.pc = NextStatement(wk.op, "filter")]]
    /\ UNCHANGED <<session_state, idleVars>>

\* events.py 100-121: the columns renamed, in a new frame
RenameColumns(w) ==
    /\ workers[w].pc = "rename"
    /\ LET wk == workers[w]
           events == Deref(wk, session_state)
           rename_map == RenameEntry(events, "created_at", << "CREATEDAT", "CREATED_AT" >>)
                         \cup RenameEntry(events, "type", << "TYPE" >>)
                         \cup RenameEntry(events, "position_coordinates",
                                          << "POSITIONCOORDINATES", "POSITION_COORDINATES" >>)
       IN  workers' = [workers EXCEPT ![w] =
                [wk EXCEPT !.frame = IF rename_map # {}
                                     THEN [fresh |-> TRUE, df |-> Rename(events, rename_map)]
                                     ELSE wk.frame,
                           !.pc = NextStatement(wk.op, "rename")]]
    /\ UNCHANGED <<session_state, idleVars>>

\* eta_chart.py 126: events_df = events_df.copy()
CopyInput(w) ==
    /\ workers[w].pc = "copy"
    /\ LET wk == workers[w]
       IN  workers' = [workers EXCEPT ![w] =
                          [wk EXCEPT !.frame = CopyFrame(session_state.events_all),
                                     !.pc = NextStatement(wk.op, "copy")]]
    /\ UNCHANGED <<session_state, idleVars>>

\* frame[column] = ...: the column is assigned in the frame the name stands
\* for, which is the session's table when the frame is not fresh
AssignColumn(w) ==
    /\ workers[w].pc \in {"created_at", "calculated_eta", "latlon", "eta_relative_hr", "version"}
    /\ LET wk == workers[w]
           a == Assignment(wk, Deref(wk, session_state))
           next == NextStatement(wk.op, wk.pc)
       IN  IF a.raised # ""
           THEN /\ workers' = [workers EXCEPT ![w] = Returned(wk, a.raised, NoDF)]
                /\ UNCHANGED session_state
           ELSE IF wk.frame.fresh
           THEN /\ workers' = [workers EXCEPT ![w] = [wk EXCEPT !.frame.df = a.df, !.pc = next]]
                /\ UNCHANGED session_state
           ELSE /\ workers' = [workers EXCEPT ![w] = [wk EXCEPT !.pc = next]]
                /\ session_state' = [session_state EXCEPT ![Origin(wk.op)] = a.df]
    /\ UNCHANGED idleVars

\* events.py 58-61, 135; eta_chart.py 157: the frame returned
Return(w) ==
    /\ workers[w].pc = "return"
    /\ LET wk == workers[w]
           events == Deref(wk, session_state)
           rename_map == RenameEntry(events, "created_at", << "CREATED_AT" >>)
                         \cup RenameEntry(events, "calculated_eta", << "CALCULATED_ETA" >>)
       IN  workers' = [workers EXCEPT ![w] =
                CASE wk.op = "eta" ->
                        Returned(wk, "", IF rename_map # {} THEN Rename(events, rename_map)
                                         ELSE events)
                  [] wk.op = "telematics" -> Returned(wk, "", events)
                  [] wk.op = "derive" -> Returned(wk, "", SortValues(DropNa(events)))]
    /\ UNCHANGED <<session_state, idleVars>>

\* helpers.py: _wkb_point_to_lonlat on the worker's own bytes
DecodeCall(w) ==
    /\ workers[w].pc = "decode"
    /\ workers' = [workers EXCEPT ![w] = Returned(@, "", wkb_point_to_lonlat(@.input))]
    /\ UNCHANGED <<session_state, idleVars>>

NextConcurrent ==
    \E w \in WorkerIds :
        \/ Source(w)
        \/ Filter(w)
        \/ RenameColumns(w)
        \/ CopyInput(w)
        \/ AssignColumn(w)
        \/ Return(w)
        \/ DecodeCall(w)

SpecConcurrent == InitConcurrent /\ [][NextConcurrent]_vars

(***************************************************************************)
(* The decoder called once on an argument.                                 *)
(***************************************************************************)
InitDecode ==
    /\ pc = "call"
    /\ wkb_input \in WkbInputs
    /\ decoded = RetNone
    /\ LoaderIdle
    /\ workers = NoWorkers
    /\ ChartIdle

Decode ==
    /\ pc = "call"
    /\ decoded' = wkb_point_to_lonlat(wkb_input)
    /\ pc' = "done"
    /\ UNCHANGED <<workers, wkb_input, loaderVars, chartVars>>

NextDecode == Decode

SpecDecode == InitDecode /\ [][NextDecode]_vars

(***************************************************************************)
(* Properties of the decoder.                                              *)
(***************************************************************************)
\* the whole numbers of half degrees inside the continental box
BoxLonHalves == {k \in CoordHalves : -62 <= k /\ k <= 120}
BoxLatHalves == {k \in CoordHalves : 60 <= k /\ k <= 150}

\* |d| <= 180 and |d| <= 90 read off the image of d: the magnitude bits of a
\* double order as its absolute value, and every NaN lies above them
AbsAtMost180(d) == LexLe(DMag(d), << 64, 102, 128, 0, 0, 0, 0, 0 >>)
AbsAtMost90(d) == LexLe(DMag(d), << 64, 86, 128, 0, 0, 0, 0, 0 >>)
GloballyValid(lon, lat) == AbsAtMost180(lon) /\ AbsAtMost90(lat)

\* the bytes the decoder works on, when its argument yields any
HasBytes == ToBytes(wkb_input).tag = "bytes"
Stripped == StripPrefix(ToBytes(wkb_input).b)

\* C1: for every (lon, lat) inside the continental box, decoding the 21-byte
\* point encoding of (lon, lat) returns exactly (lon, lat), for the
\* little-endian (flag 1) and for the big-endian (flag 0) encoding.
C1_RoundTrip ==
    (pc = "done" /\ wkb_input.kind = "bytes" /\ Len(wkb_input.b) = 21) =>
        \A f \in {0, 1} : \A kx \in BoxLonHalves : \A ky \in BoxLatHalves :
            wkb_input = InBytes(EncodePoint(f, 1, DoubleOfHalves(kx), DoubleOfHalves(ky)))
                => decoded = RetPoint(DoubleOfHalves(kx), DoubleOfHalves(ky))

\* C2: for every little-endian point encoding e (flag 1, type code 1, 21
\* bytes or more), decoding 00 00 00 00 followed by e gives the same outcome
\* (the same point, or None) as decoding e alone.
C2_PrefixTransparent ==
    (/\ pc = "done"
     /\ wkb_input.kind = "bytes"
     /\ Len(wkb_input.b) >= 4 + 21
     /\ Slice(wkb_input.b, 0, 4) = Zeros(4)
     /\ Slice(wkb_input.b, 4, 9) = << 1, 1, 0, 0, 0 >>)
        => decoded = wkb_point_to_lonlat(InBytes(Slice(wkb_input.b, 4, Len(wkb_input.b))))

C2_Witness ==
    /\ pc = "done"
    /\ wkb_input = InBytes(Zeros(4) \o EncodePoint(1, 1, Lit(13), Lit(52)))
    /\ decoded = RetPoint(Lit(13), Lit(52))

\* C3 as stated: every input with a valid byte-order flag, at least 21 bytes,
\* coordinates in range and a type code, read at offset 1 in the flag's byte
\* order, other than 1 decodes to None.
C3_NonPointUndecodable ==
    (/\ pc = "done"
     /\ wkb_input.kind = "bytes"
     /\ Len(wkb_input.b) >= 21
     /\ wkb_input.b[1] \in {0, 1}
     /\ LET en == EndianOf(wkb_input.b[1])
            x  == UnpackDouble(en, Slice(wkb_input.b, 5, 13))
            y  == UnpackDouble(en, Slice(wkb_input.b, 13, 21))
        IN  /\ UnpackU32(en, Slice(wkb_input.b, 1, 5)) # <<0, 1>>
            /\ GloballyValid(x, y))
        => decoded = RetNone

\* C3 amended: every input that, once the optional zero prefix is stripped,
\* has a valid byte-order flag, at least 21 bytes and a type code (read in
\* the detected byte order) other than 1 decodes to None, in both byte
\* orders.
C3_NonPointAfterStrip ==
    (/\ pc = "done"
     /\ HasBytes
     /\ Len(Stripped) >= 21
     /\ Stripped[1] \in {0, 1}
     /\ UnpackU32(EndianOf(Stripped[1]), Slice(Stripped, 1, 5)) # <<0, 1>>)
        => decoded = RetNone

C3_Witness ==
    /\ pc = "done"
    /\ wkb_input = InBytes(EncodePoint(0, 2, Lit(13), Lit(52)))
    /\ decoded = RetNone

\* C4: for a decoded raw pair (x, y), whenever the pairing (lon = x, lat = y)
\* is not both globally valid and inside the box and the swapped pairing
\* (lon = y, lat = x) is globally valid, the decoder returns (y, x).
C4_AxisSwap ==
    (/\ pc = "done"
     /\ HasBytes
     /\ RawPair(Stripped).ok)
        => LET x == RawPair(Stripped).x
               y == RawPair(Stripped).y
           IN  (/\ ~(GloballyValid(x, y) /\ in_europe(x, y))
                /\ GloballyValid(y, x))
                   => decoded = RetPoint(y, x)

\* raw (x = -80, y = 10): both pairings valid, neither inside the box
C4_Witness ==
    /\ pc = "done"
    /\ wkb_input = InBytes(EncodePoint(1, 1, Lit(-80), Lit(10)))
    /\ decoded = RetPoint(Lit(10), Lit(-80))

\* C5: whenever the decoder returns a point (lon, lat), -180 <= lon <= 180
\* and -90 <= lat <= 90.
C5_ResultInRange ==
    (pc = "done" /\ decoded.tag = "Point") => GloballyValid(decoded.lon, decoded.lat)

\* raw (x = 10, y = 120): only the swapped pairing is valid
C5_Witness ==
    /\ pc = "done"
    /\ wkb_input = InBytes(EncodePoint(1, 1, Lit(10), Lit(120)))
    /\ decoded = RetPoint(Lit(120), Lit(10))

\* C6: the decoder raises nothing, and returns None for None, for an
\* argument that is neither text nor bytes, for text that is neither strict
\* Base64 nor hexadecimal, for fewer than 21 bytes after the optional prefix
\* is stripped, and for a byte-order flag other than 0 and 1.
C6_DegradesToNone ==
    pc = "done" =>
        /\ decoded.tag # "Raise"
        /\ wkb_input.kind \in {"None", "other"} => decoded = RetNone
        /\ (/\ wkb_input.kind = "str"
            /\ ~B64Decode(Strip(wkb_input.s)).ok
            /\ ~FromHex(Strip(wkb_input.s)).ok) => decoded = RetNone
        /\ (HasBytes /\ Len(Stripped) < 21) => decoded = RetNone
        /\ (HasBytes /\ Len(Stripped) >= 21 /\ Stripped[1] \notin {0, 1})
              => decoded = RetNone

C6_Witness ==
    /\ pc = "done"
    /\ wkb_input = InStr(<<"z", "z">>)
    /\ decoded = RetNone

\* C7, on the 21-byte encodings: for a point input (valid flag, type code 1 in
\* the flag's byte order) the decoder returns None exactly when neither
\* (lon = x, lat = y) nor (lon = y, lat = x) is globally valid, and the one
\* valid pairing when exactly one is.
C7_NoneIffNoValidPairing ==
    (/\ pc = "done"
     /\ wkb_input.kind = "bytes"
     /\ Len(wkb_input.b) = 21
     /\ wkb_input.b[1] \in {0, 1}
     /\ UnpackU32(EndianOf(wkb_input.b[1]), Slice(wkb_input.b, 1, 5)) = <<0, 1>>)
        => LET en == EndianOf(wkb_input.b[1])
               x  == UnpackDouble(en, Slice(wkb_input.b, 5, 13))
               y  == UnpackDouble(en, Slice(wkb_input.b, 13, 21))
           IN  /\ (decoded = RetNone) <=> (~GloballyValid(x, y) /\ ~GloballyValid(y, x))
               /\ (GloballyValid(x, y) /\ ~GloballyValid(y, x)) => decoded = RetPoint(x, y)
               /\ (~GloballyValid(x, y) /\ GloballyValid(y, x)) => decoded = RetPoint(y, x)

(***************************************************************************)
(* Properties of the loaders.                                              *)
(***************************************************************************)
\* the raw table a call works on: the argument, or else the session's table
RawTable ==
    IF table_arg.isdf THEN table_arg
    ELSE IF called = "eta" THEN session_state.events_all
    ELSE session_state.telematic_all

\* the identifier column of the kind: ETA knows TRANSPORT_ID; telemetry
\* knows TRANSPORTID first, then TRANSPORT_ID; "" when the table has none
IdColumn ==
    IF called = "telematics" /\ HasCol(RawTable, "TRANSPORTID") THEN "TRANSPORTID"
    ELSE IF HasCol(RawTable, "TRANSPORT_ID") THEN "TRANSPORT_ID"
    ELSE ""

\* the positions of the raw rows whose identifier in column c, as text, is
\* the text of the selected identifier
MatchingRows(c) ==
    { i \in 1..Len(RawTable.data) :
        PyStr(RawTable.data[i][ColPos(RawTable, c)]) = PyStr(selected_id) }

\* the returned rows are the raw rows at the positions P, in their order
\* (a raw row at position i carries the label i - 1)
ReturnsRows(P) ==
    /\ ret.isdf
    /\ {ret.idx[k] + 1 : k \in 1..Len(ret.idx)} = P
    /\ \A k \in 1..(Len(ret.idx) - 1) : ret.idx[k] < ret.idx[k + 1]

Loaded == pc = "done" /\ called \in {"eta", "telematics"} /\ RawTable.isdf

\* C8: a table with none of the kind's identifier columns gives the
\* missing-identifier outcome, a warning and no table, and nothing else; a
\* telemetry table with both spellings is filtered on TRANSPORTID.
C8_MissingIdentifier ==
    /\ (Loaded /\ IdColumn = "")
          => /\ ret = NoDF
             /\ warnings = << IF called = "eta" THEN EtaWarning ELSE TelematicsWarning >>
    /\ (/\ Loaded /\ called = "telematics"
        /\ HasCol(RawTable, "TRANSPORTID") /\ HasCol(RawTable, "TRANSPORT_ID"))
          => ReturnsRows(MatchingRows("TRANSPORTID"))

\* an ETA call on a table that has only the telemetry spelling
C8_Witness ==
    /\ Loaded /\ called = "eta"
    /\ HasCol(RawTable, "TRANSPORTID") /\ ~HasCol(RawTable, "TRANSPORT_ID")
    /\ Len(RawTable.data) > 0
    /\ ret = NoDF /\ warnings = << EtaWarning >>

\* C9: the rows returned for the identifier t are exactly the raw rows
\* whose identifier, as text, equals the text of t, in their original
\* order, each with its identifier cell.
C9_FilterExact ==
    (Loaded /\ IdColumn # "")
        => /\ ReturnsRows(MatchingRows(IdColumn))
           /\ ~IsEmpty(ret) =>
                \A k \in 1..Len(ret.idx) :
                    ret.data[k][ColPos(ret, IdColumn)]
                        = RawTable.data[ret.idx[k] + 1][ColPos(RawTable, IdColumn)]

\* the rows "123", "1234", "123": the first and third are returned for 123
C9_Witness ==
    /\ Loaded /\ called = "eta"
    /\ selected_id = VInt(123)
    /\ IdColumn = "TRANSPORT_ID"
    /\ Len(RawTable.data) = 3
    /\ Column(RawTable, "TRANSPORT_ID")[2] = VStr(<< "1", "2", "3", "4" >>)
    /\ ret.idx = << 0, 2 >>

\* C10: a table with an identifier column none of whose rows matches gives
\* an empty table, no None and no warning, for both kinds.
C10_NoMatchIsEmpty ==
    (Loaded /\ IdColumn # "" /\ MatchingRows(IdColumn) = {})
        => ret = EmptyDF /\ warnings = <<>>

C10_Witness ==
    /\ Loaded /\ called = "telematics"
    /\ IdColumn = "TRANSPORTID"
    /\ Len(RawTable.data) = 2
    /\ MatchingRows(IdColumn) = {}
    /\ ret = EmptyDF

\* the canonical timestamp fields of the kind that was loaded
TimestampFields ==
    IF called = "eta" THEN {"created_at", "calculated_eta"} ELSE {"created_at"}

\* a UTC instant or null
IsInstantOrNull(v) == v.t \in {"ts", "nat"}

\* C11: in a non-empty table returned by a loader, every value under a
\* canonical timestamp name (created_at; calculated_eta for ETA) is a UTC
\* instant or null, whichever accepted spelling the raw column had.
C11_TimestampsParsed ==
    (Loaded /\ ret.isdf /\ ~IsEmpty(ret))
        => \A c \in TimestampFields :
              HasCol(ret, c) =>
                 \A r \in 1..Len(ret.data) : IsInstantOrNull(Column(ret, c)[r])

\* the alternatives of a canonical field, in the order of the kind
Alternatives(canonical) ==
    CASE called = "eta" /\ canonical = "created_at" -> << "CREATED_AT" >>
      [] called = "eta" /\ canonical = "calculated_eta" -> << "CALCULATED_ETA" >>
      [] called = "telematics" /\ canonical = "created_at" -> << "CREATEDAT", "CREATED_AT" >>
      [] called = "telematics" /\ canonical = "type" -> << "TYPE" >>
      [] called = "telematics" /\ canonical = "position_coordinates" ->
            << "POSITIONCOORDINATES", "POSITION_COORDINATES" >>

CanonicalFields ==
    IF called = "eta" THEN {"created_at", "calculated_eta"}
    ELSE {"created_at", "type", "position_coordinates"}

\* the name the raw column at position i is to have in the result
ExpectedName(i) ==
    LET name == RawTable.cols[i]
        firstOf(c) ==
            /\ ~HasCol(RawTable, c)
            /\ \E k \in 1..Len(Alternatives(c)) :
                  /\ Alternatives(c)[k] = name
                  /\ \A j \in 1..(k - 1) : ~HasCol(RawTable, Alternatives(c)[j])
    IN  IF \E c \in CanonicalFields : firstOf(c)
        THEN CHOOSE c \in CanonicalFields : firstOf(c)
        ELSE name

\* C12: a canonical name that is a column already is renamed to by nothing;
\* otherwise the first present alternative takes it and later alternatives
\* keep their names; no canonical name is carried by two columns.
C12_FirstMatchWins ==
    (Loaded /\ ret.isdf /\ ~IsEmpty(ret))
        => /\ Len(ret.cols) >= Len(RawTable.cols)
           /\ \A i \in 1..Len(RawTable.cols) : ret.cols[i] = ExpectedName(i)
           /\ \A c \in CanonicalFields :
                 Cardinality({i \in 1..Len(ret.cols) : ret.cols[i] = c}) <= 1

\* a telemetry table with both spellings of created_at and of the position:
\* CREATEDAT and POSITIONCOORDINATES are renamed, the later ones are kept
C12_Witness ==
    /\ Loaded /\ called = "telematics" /\ ret.isdf /\ ~IsEmpty(ret)
    /\ HasCol(RawTable, "CREATEDAT") /\ HasCol(RawTable, "CREATED_AT")
    /\ ~HasCol(RawTable, "created_at")
    /\ HasCol(ret, "created_at") /\ HasCol(ret, "CREATED_AT") /\ ~HasCol(ret, "CREATEDAT")
    /\ HasCol(ret, "type")

\* the text of a position cell without blanks and parentheses
PositionText(v) == StripChars(Strip(PyStr(v)), {"(", ")"})

\* the number a component names, null when it names none
ComponentValue(s) == IF IsNumeral(s) THEN VFloat(NumeralTenths(s)) ELSE VNaN

\* C13: a telemetry result with a position_coordinates field keeps every
\* matching row and has lat and lon in every row: the number before the first
\* comma and the number after it, null where the split or the parse fails,
\* also when no row holds a comma.
C13_LatLonExtracted ==
    (Loaded /\ called = "telematics" /\ ret.isdf /\ ~IsEmpty(ret)
        /\ HasCol(ret, "position_coordinates"))
        => /\ Len(ret.data) = Cardinality(MatchingRows(IdColumn))
           /\ HasCol(ret, "lat") /\ HasCol(ret, "lon")
           /\ \A r \in 1..Len(ret.data) :
                LET parts == SplitFirstComma(
                                 PositionText(Column(ret, "position_coordinates")[r]))
                IN  /\ Column(ret, "lat")[r] = ComponentValue(parts[1])
                    /\ Column(ret, "lon")[r] =
                          (IF Len(parts) = 2 THEN ComponentValue(parts[2]) ELSE VNaN)

(***************************************************************************)
(* Properties of the derivation.                                           *)
(***************************************************************************)
\* the derivation ran on the loaded table and returned a table
Derived == pc \in {"derived", "again"} /\ chart.raised = ""

\* the rows of the derived table
DerivedRows == 1..Len(chart.df.data)

\* the row of the loaded table that the derived row k comes from
SourceRow(k) == CHOOSE i \in 1..Len(ret.idx) : ret.idx[i] = chart.df.idx[k]

\* C14: no call of a loader or of the derivation changes the table passed
\* to it or the tables of the session: the raw tables stay as they were,
\* and the loaded table stays as loaded while the derivation adds its columns.
C14_InputsUnmutated ==
    [][ /\ table_arg' = table_arg
        /\ session_state' = session_state
        /\ (pc # "call" => ret' = ret) ]_vars

\* a table held in the session was loaded (its columns renamed and parsed)
\* and derived, and neither it nor the loaded table has the derived columns
C14_Witness ==
    /\ Derived /\ Len(chart.df.data) > 0
    /\ session_state.events_all.isdf
    /\ HasCol(session_state.events_all, "CREATED_AT")
    /\ session_state.events_all = ChartTable(session_state.events_all.cols,
                                             SubSeq(FixedTimes, 1, Len(ret.data)), 0)
    /\ HasCol(ret, "created_at")
    /\ HasCol(chart.df, "eta_relative_hr") /\ HasCol(chart.df, "version")
    /\ ~HasCol(ret, "eta_relative_hr") /\ ~HasCol(ret, "version")

\* C15: in every derived record with a calculated ETA, eta_relative_hr is
\* the ETA minus the reference unloading time in hours: positive after the
\* reference, negative before, 0 when equal.
C15_RelativeHours ==
    (Derived /\ reached_unloading_at.t = "ts")
        => \A k \in DerivedRows :
              LET eta == Column(chart.df, "calculated_eta")[k]
                  hr  == Column(chart.df, "eta_relative_hr")[k]
                  d   == eta.n - reached_unloading_at.n
              IN  eta.t = "ts" =>
                     /\ hr.t = "float"
                     /\ 360 * hr.n = d
                     /\ (d > 0 <=> hr.n > 0) /\ (d < 0 <=> hr.n < 0)

\* an ETA of 10:00 against an unloading time of 08:00 gives 2.0, beside a
\* record with an ETA before the unloading time of the next day
C15_Witness ==
    /\ Derived /\ reached_unloading_at = VTs(Instant0800)
    /\ \E k \in DerivedRows :
          /\ Column(chart.df, "calculated_eta")[k] = VTs(Instant0800 + 7200)
          /\ Column(chart.df, "eta_relative_hr")[k] = VFloat(20)

\* the loaded table has the two columns the derivation reads
HasTimeColumns == HasCol(ret, "created_at") /\ HasCol(ret, "calculated_eta")

\* the records the derivation is to keep: those with a created_at and a
\* calculated ETA that parse, as labels
KeptLabels ==
    { ret.idx[i] : i \in { j \in 1..Len(ret.data) :
                             /\ ToDatetimeCell(Column(ret, "created_at")[j]).t = "ts"
                             /\ ToDatetimeCell(Column(ret, "calculated_eta")[j]).t = "ts" } }

\* C16: without a reference unloading time (no REACHED_UNLOADING_AT value,
\* or an unparseable one) the derivation yields no record, for every table;
\* with one, a record without a calculated ETA is dropped and the others stay.
C16_NullReference ==
    (pc \in {"derived", "again"} /\ HasTimeColumns)
        => /\ reached_unloading_at.t \in {"none", "nat"}
                => (chart.raised = "" /\ chart.df.isdf /\ Len(chart.df.data) = 0)
           /\ reached_unloading_at.t = "ts"
                => /\ chart.raised = ""
                   /\ {chart.df.idx[k] : k \in DerivedRows} = KeptLabels

\* the explicit version field of row i of the loaded table ([has, v])
ExplicitVersion(i) ==
    IF HasCol(ret, "version") THEN [has |-> TRUE, v |-> Column(ret, "version")[i]]
    ELSE IF HasCol(ret, "VERSION") THEN [has |-> TRUE, v |-> Column(ret, "VERSION")[i]]
    ELSE [has |-> FALSE, v |-> VNaN]

\* the text of the source field of row i, lower-cased ("" without the field)
SourceText(i) ==
    IF HasCol(ret, "source") /\ notna(Column(ret, "source")[i])
    THEN Lower(PyStr(Column(ret, "source")[i])) ELSE <<>>

\* C17: a non-null explicit version containing "3" tags v3, else one
\* containing "2" tags v2, whatever the source; without an explicit version
\* a source containing "v3" tags v3, else one containing "v2" tags v2, else
\* the tag is unknown.
C17_VersionPriority ==
    Derived
        => \A k \in DerivedRows :
              LET e   == ExplicitVersion(SourceRow(k))
                  v   == Lower(PyStr(e.v))
                  s   == SourceText(SourceRow(k))
                  tag == Column(chart.df, "version")[k]
              IN  IF e.has /\ notna(e.v)
                  THEN /\ Contains(v, <<"3">>) => tag = VStr(TagV3)
                       /\ (~Contains(v, <<"3">>) /\ Contains(v, <<"2">>)) => tag = VStr(TagV2)
                  ELSE tag = VStr(IF Contains(s, TagV3) THEN TagV3
                                  ELSE IF Contains(s, TagV2) THEN TagV2
                                  ELSE TagUnknown)

\* C18: every derived record has the version v2, v3 or unknown, whether or
\* not the table came with a version or VERSION column and whatever it held.
C18_VersionDomain ==
    Derived
        => \A k \in DerivedRows :
              Column(chart.df, "version")[k]
                  \in {VStr(TagV2), VStr(TagV3), VStr(TagUnknown)}

\* C19: no derived record lacks created_at or eta_relative_hr, and the
\* records are in non-decreasing order of created_at, whatever their order
\* in the table.
C19_CleanAndSorted ==
    Derived
        => /\ \A k \in DerivedRows :
                /\ Column(chart.df, "created_at")[k].t = "ts"
                /\ Column(chart.df, "eta_relative_hr")[k].t = "float"
           /\ \A k \in 1..(Len(chart.df.data) - 1) :
                Column(chart.df, "created_at")[k].n <= Column(chart.df, "created_at")[k + 1].n

\* three records of which the latest came first and one was dropped
C19_Witness ==
    /\ Derived
    /\ Len(ret.data) = 3 /\ Len(chart.df.data) = 2
    /\ chart.df.idx = << 1, 0 >>
    /\ Column(chart.df, "created_at")[1].n < Column(chart.df, "created_at")[2].n

C21_NoFatalError ==
    pc \in {"derived", "again"} => (chart.raised = "" /\ chart.df.isdf)

\* the big-endian 21-byte encoding of the pair that the little-endian
\* encoding e holds
BigEndianOf(e) ==
    EncodePoint(0, 1, UnpackDouble("<", Slice(e, 5, 13)), UnpackDouble("<", Slice(e, 13, 21)))

\* C23: the big-endian encoding (flag 0, type code 1, 21 bytes, no prefix) of
\* a raw pair decodes to what the little-endian encoding of the pair decodes
\* to; the prefix step leaves the unprefixed big-endian point alone.
C23_EndianIndependent ==
    (/\ pc = "done"
     /\ wkb_input.kind = "bytes"
     /\ Len(wkb_input.b) = 21
     /\ wkb_input.b[1] = 1
     /\ UnpackU32("<", Slice(wkb_input.b, 1, 5)) = <<0, 1>>)
        => /\ wkb_point_to_lonlat(InBytes(BigEndianOf(wkb_input.b))) = decoded
           /\ StripPrefix(BigEndianOf(wkb_input.b)) = BigEndianOf(wkb_input.b)

\* C24: a non-null explicit version whose lower-cased text holds neither
\* "2" nor "3" leaves the tag to the source: v3 if it contains "v3", else v2
\* if it contains "v2", else unknown.
C24_FallThroughToSource ==
    Derived
        => \A k \in DerivedRows :
              LET e == ExplicitVersion(SourceRow(k))
                  v == Lower(PyStr(e.v))
                  s == SourceText(SourceRow(k))
              IN  (e.has /\ notna(e.v) /\ ~Contains(v, <<"2">>) /\ ~Contains(v, <<"3">>))
                     => Column(chart.df, "version")[k]
                           = VStr(IF Contains(s, TagV3) THEN TagV3
                                  ELSE IF Contains(s, TagV2) THEN TagV2
                                  ELSE TagUnknown)

(***************************************************************************)
(* Properties of the runs of the application.                              *)
(***************************************************************************)
\* the current run did not load the ETA events and said so
RunFailedToLoad ==
    /\ pc # "source"
    /\ ~table_arg.isdf
    /\ \E i \in 1..Len(warnings) : warnings[i] = EtaNotLoadedWarning

\* an ETA timeline was derived and drawn in the current run
ChartDrawn == pc = "derived" /\ chart.raised = ""

\* C25: in a run that failed to load the ETA events and shows the warning
\* that charts are unavailable, selecting a transport draws no ETA timeline,
\* also when an earlier run cached a table in the session.
C25_NoChartAfterFailedLoad == RunFailedToLoad => ~ChartDrawn

(***************************************************************************)
(* Properties of the calls running side by side.                           *)
(***************************************************************************)
\* what the call of a worker returns when it runs alone over the session
Alone(wk, session) ==
    CASE wk.op = "eta" ->
            [raised |-> "", v |-> load_eta_events_for_transport(wk.sel, NoDF, session).ret]
      [] wk.op = "telematics" ->
            [raised |-> "", v |-> load_telematics_events_for_transport(wk.sel, NoDF, session).ret]
      [] wk.op = "derive" ->
            LET r == eta_timeline_chart(session.events_all, wk.reached)
            IN  [raised |-> r.raised, v |-> r.df]
      [] wk.op = "decode" -> [raised |-> "", v |-> wkb_point_to_lonlat(wk.input)]

\* C22: whatever the order in which the statements of two calls made for
\* different transports are taken, no step changes the shared tables, and a
\* call that has returned has returned what it returns when run alone.
C22_NoInterference ==
    [][/\ session_state' = session_state
       /\ \A w \in WorkerIds :
            workers'[w].pc = "done" => workers'[w].result = Alone(workers'[w], session_state)]_vars

\* a loader returned the rows of its transport while the derivation of the
\* other worker, over the same table, has assigned columns and not returned
C22_Witness ==
    /\ workers # NoWorkers
    /\ workers[1].op = "eta" /\ workers[1].pc = "done"
    /\ workers[1].result.v.isdf /\ ~IsEmpty(workers[1].result.v)
    /\ workers[2].op = "derive" /\ workers[2].pc = "eta_relative_hr"

====
